---- MODULE Spec2Model ----
(***************************************************************************)
(* Verification model of the triple-verification hooks: the rule engine    *)
(* (scripts/lib/rules-engine.mjs), the research verifier                   *)
(* (scripts/lib/research-verifier.mjs) and the pre-tool gate               *)
(* (scripts/pre-tool-gate.mjs).                                            *)
(*                                                                         *)
(* Text is modelled by TLA+ strings; positions inside the model are        *)
(* 1-based, and every index the code exposes (a claim's index) is kept     *)
(* 0-based as in JavaScript.                                               *)
(***************************************************************************)
EXTENDS Integers, Sequences, FiniteSets, TLC

\* ------------------------------------------------------------------------
\* Characters and strings
\* ------------------------------------------------------------------------

UpperChars == <<"A","B","C","D","E","F","G","H","I","J","K","L","M",
                "N","O","P","Q","R","S","T","U","V","W","X","Y","Z">>

LowerChars == <<"a","b","c","d","e","f","g","h","i","j","k","l","m",
                "n","o","p","q","r","s","t","u","v","w","x","y","z">>

UpperSet == {UpperChars[k] : k \in 1..26}

LowerSet == {LowerChars[k] : k \in 1..26}

DigitSet == {"0","1","2","3","4","5","6","7","8","9"}

\* \w of a JavaScript regular expression
WordSet == UpperSet \cup LowerSet \cup DigitSet \cup {"_"}

\* \s of a JavaScript regular expression (the members the model's texts use)
SpaceSet == {" ", "\n", "\t", "\r"}

\* line terminators: "." does not match them, and ^ $ anchor at them under /m
LineTerminators == {"\n", "\r"}

CharAt(s, i) == SubSeq(s, i, i)

LowerChar(c) ==
  IF c \in UpperSet
    THEN LowerChars[CHOOSE k \in 1..26 : UpperChars[k] = c]
    ELSE c

UpperChar(c) ==
  IF c \in LowerSet
    THEN UpperChars[CHOOSE k \in 1..26 : LowerChars[k] = c]
    ELSE c

RECURSIVE LowerFrom(_, _)
LowerFrom(s, i) ==
  IF i > Len(s) THEN "" ELSE LowerChar(CharAt(s, i)) \o LowerFrom(s, i + 1)

\* String.prototype.toLowerCase
toLowerCase(s) == LowerFrom(s, 1)

\* String.prototype.slice(start, end) with 0-based, already clamped bounds
Slice(s, start, end) == SubSeq(s, start + 1, end)

\* String.prototype.indexOf(w) >= 0, i.e. String.prototype.includes(w)
Includes(s, w) ==
  \E i \in 1..(Len(s) - Len(w) + 1) : SubSeq(s, i, i + Len(w) - 1) = w

EndsWith(s, w) ==
  Len(s) >= Len(w) /\ SubSeq(s, Len(s) - Len(w) + 1, Len(s)) = w

StartsWith(s, w) ==
  Len(s) >= Len(w) /\ SubSeq(s, 1, Len(w)) = w

Min(a, b) == IF a < b THEN a ELSE b

Max(a, b) == IF a > b THEN a ELSE b

\* ------------------------------------------------------------------------
\* Regular expressions: the syntax tree of a JavaScript pattern and a
\* backtracking matcher that returns the end positions of the matches that
\* begin at a position, in the engine's order of preference.
\* ------------------------------------------------------------------------

\* one character of a class
Cls(S) == [t |-> "cls", s |-> S, neg |-> FALSE]

\* one character outside a class ([^...])
NCls(S) == [t |-> "cls", s |-> S, neg |-> TRUE]

\* "." : any character but a line terminator
Dot == NCls(LineTerminators)

\* a literal run of characters
Lit(w) == [t |-> "lit", w |-> w]

\* concatenation
Cat(xs) == [t |-> "cat", xs |-> xs]

\* alternation a|b|c, tried left to right
Alt(xs) == [t |-> "alt", xs |-> xs]

\* x{lo,hi}; hi = -1 is unbounded; greedy unless lazy
Rep(x, lo, hi) == [t |-> "rep", x |-> x, lo |-> lo, hi |-> hi, lazy |-> FALSE]

Lazy(x, lo, hi) == [t |-> "rep", x |-> x, lo |-> lo, hi |-> hi, lazy |-> TRUE]

Star(x) == Rep(x, 0, -1)

Plus(x) == Rep(x, 1, -1)

Opt(x) == Rep(x, 0, 1)

\* \b
WordB == [t |-> "wordb"]

\* ^ and $ under the m flag
Bol == [t |-> "bol"]

Eol == [t |-> "eol"]

\* (?!x)
NotAhead(x) == [t |-> "nla", x |-> x]

\* \s+ , \s* , \d+
Sp1 == Plus(Cls(SpaceSet))

Sp0 == Star(Cls(SpaceSet))

Digits1 == Plus(Cls(DigitSet))

\* a regular expression with its flags
\* a variant of RegExp whose objects carry the g flag
RegExpGlobalFlag(re, ignoreCase) == [re |-> re, i |-> ignoreCase, g |-> TRUE]

\* a RegExp object: no pattern of the rules, of VAGUE_PATTERN, CLAIM_PATTERNS
\* or SOURCE_PATTERNS carries the g or y flag
RegExp(re, ignoreCase) == [re |-> re, i |-> ignoreCase, g |-> FALSE]

\* whether character c is in class S, under the i flag or not
InClass(c, S, ci) ==
  \/ c \in S
  \/ ci /\ (LowerChar(c) \in S \/ UpperChar(c) \in S)

CharEq(c, d, ci) == c = d \/ (ci /\ LowerChar(c) = LowerChar(d))

RECURSIVE LitAt(_, _, _, _, _)
LitAt(w, k, s, i, ci) ==
  \/ k > Len(w)
  \/ /\ i + k - 1 <= Len(s)
     /\ CharEq(CharAt(s, i + k - 1), CharAt(w, k), ci)
     /\ LitAt(w, k + 1, s, i, ci)

IsWordAt(s, i) == i >= 1 /\ i <= Len(s) /\ CharAt(s, i) \in WordSet

\* the elements of b that a does not hold, appended to a
RECURSIVE AppendNew(_, _)
AppendNew(a, b) ==
  IF b = <<>> THEN a
  ELSE IF \E k \in 1..Len(a) : a[k] = Head(b)
    THEN AppendNew(a, Tail(b))
    ELSE AppendNew(Append(a, Head(b)), Tail(b))

RECURSIVE MatchEnds(_, _, _, _)
RECURSIVE CatEnds(_, _, _, _, _)
RECURSIVE AltEnds(_, _, _, _, _)
RECURSIVE RepEnds(_, _, _, _, _, _, _)
RECURSIVE Thread(_, _, _, _, _, _, _)
RECURSIVE RepFrom(_, _, _, _, _, _, _, _, _)
RECURSIVE RunEnd(_, _, _, _, _)

\* the ends of the matches of r that begin at i, most preferred first
MatchEnds(r, s, i, ci) ==
  CASE r.t = "cls" ->
         IF i <= Len(s) /\ (InClass(CharAt(s, i), r.s, ci) # r.neg)
           THEN <<i + 1>> ELSE <<>>
    [] r.t = "lit" ->
         IF LitAt(r.w, 1, s, i, ci) THEN <<i + Len(r.w)>> ELSE <<>>
    [] r.t = "cat" -> CatEnds(r.xs, 1, s, <<i>>, ci)
    [] r.t = "alt" -> AltEnds(r.xs, 1, s, i, ci)
    [] r.t = "rep" -> RepEnds(r.x, r.lo, r.hi, r.lazy, s, i, ci)
    [] r.t = "wordb" ->
         IF IsWordAt(s, i - 1) # IsWordAt(s, i) THEN <<i>> ELSE <<>>
    [] r.t = "bol" ->
         IF i = 1 \/ CharAt(s, i - 1) \in LineTerminators THEN <<i>> ELSE <<>>
    [] r.t = "eol" ->
         IF i = Len(s) + 1 \/ CharAt(s, i) \in LineTerminators
           THEN <<i>> ELSE <<>>
    [] r.t = "nla" ->
         IF MatchEnds(r.x, s, i, ci) = <<>> THEN <<i>> ELSE <<>>

\* xs[k..] matched from each position of from, in order
CatEnds(xs, k, s, from, ci) ==
  IF k > Len(xs) THEN from
  ELSE CatEnds(xs, k + 1, s, Thread(xs[k], 1, from, <<>>, s, ci, FALSE), ci)

\* the ends of x from each position from[n..], in order, appended to acc;
\* with strict, only the ends that consume a character
Thread(x, n, from, acc, s, ci, strict) ==
  IF n > Len(from) THEN acc
  ELSE LET ends == MatchEnds(x, s, from[n], ci)
           kept == IF strict
                     THEN SelectSeq(ends, LAMBDA j : j > from[n])
                     ELSE ends
       IN  Thread(x, n + 1, from, AppendNew(acc, kept), s, ci, strict)

AltEnds(xs, k, s, i, ci) ==
  IF k > Len(xs) THEN <<>>
  ELSE AppendNew(MatchEnds(xs[k], s, i, ci), AltEnds(xs, k + 1, s, i, ci))

\* the position after the longest run of characters of class c from i,
\* at most to position stop
RunEnd(c, s, i, stop, ci) ==
  IF i < stop /\ i <= Len(s) /\ (InClass(CharAt(s, i), c.s, ci) # c.neg)
    THEN RunEnd(c, s, i + 1, stop, ci)
    ELSE i

\* x{lo,hi} from i. A repeated character class is a run of characters: its
\* ends are every length from lo to the longest run, longest first when
\* greedy. Any other x is unfolded one repetition at a time.
RepEnds(x, lo, hi, lazy, s, i, ci) ==
  IF x.t = "cls"
    THEN LET stop == IF hi < 0 THEN Len(s) + 1 ELSE i + hi
             last == RunEnd(x, s, i, stop, ci)
             n    == last - (i + lo) + 1
         IN  IF n <= 0 THEN <<>>
             ELSE IF lazy THEN [k \in 1..n |-> i + lo + k - 1]
             ELSE [k \in 1..n |-> last - k + 1]
  ELSE IF hi = 0 THEN <<i>>
  ELSE LET once == Thread(x, 1, <<i>>, <<>>, s, ci, lo = 0)
           nlo  == IF lo > 0 THEN lo - 1 ELSE 0
           nhi  == IF hi > 0 THEN hi - 1 ELSE hi
           more == RepFrom(x, nlo, nhi, lazy, s, once, 1, <<>>, ci)
       IN  IF lo > 0 THEN more
           ELSE IF lazy THEN AppendNew(<<i>>, more)
           ELSE AppendNew(more, <<i>>)

\* x{lo,hi} from each position from[n..], in order, appended to acc
RepFrom(x, lo, hi, lazy, s, from, n, acc, ci) ==
  IF n > Len(from) THEN acc
  ELSE RepFrom(x, lo, hi, lazy, s, from, n + 1,
               AppendNew(acc, RepEnds(x, lo, hi, lazy, s, from[n], ci)), ci)

\* RegExp.prototype.test: the pattern matches somewhere in s
Test(p, s) == \E i \in 1..(Len(s) + 1) : MatchEnds(p.re, s, i, p.i) # <<>>

\* the first match of p in s that begins at position from or later:
\* <<start, end>> (1-based start, end the position after the match), or <<>>
ExecFrom(p, s, from) ==
  LET starts == {i \in from..(Len(s) + 1) : MatchEnds(p.re, s, i, p.i) # <<>>}
  IN  IF starts = {} THEN <<>>
      ELSE LET i == CHOOSE m \in starts : \A n \in starts : m <= n
           IN  <<i, MatchEnds(p.re, s, i, p.i)[1]>>


\* ------------------------------------------------------------------------
\* scripts/lib/rules-engine.mjs
\* ------------------------------------------------------------------------

\* the value of fileExtensions of a rule that has no extension list (null);
\* no rule of the catalog has an empty array
null == <<>>

JsExts == <<".js", ".ts", ".jsx", ".tsx", ".mjs", ".cjs">>

SqlVerb ==
  Alt(<<Lit("SELECT"), Lit("INSERT"), Lit("UPDATE"), Lit("DELETE"),
        Lit("DROP"), Lit("ALTER"), Lit("CREATE")>>)

\* ['"] and the back quote; the texts of the model hold no back quote, which
\* a TLA+ string cannot hold
Quote3 == Cls({"'", "\""})

Quote2 == Cls({"'", "\""})

AsciiLetters == Cls(UpperSet \cup LowerSet)

SepOpt == Opt(Cls({"_", "-"}))

CYCLE1_RULES == <<
  [id |-> "no-todo",
   \* /\b(TODO|FIXME|HACK|XXX)\b/
   pattern |-> RegExp(Cat(<<WordB,
                 Alt(<<Lit("TODO"), Lit("FIXME"), Lit("HACK"), Lit("XXX")>>),
                 WordB>>), FALSE),
   appliesTo |-> "file-write",
   fileExtensions |-> null,
   message |-> "Code contains a TODO/FIXME/HACK/XXX comment. Remove placeholder comments and implement the actual logic."],
  [id |-> "no-empty-pass",
   \* /^\s*pass\s*$/m
   pattern |-> RegExp(Cat(<<Bol, Sp0, Lit("pass"), Sp0, Eol>>), FALSE),
   appliesTo |-> "file-write",
   fileExtensions |-> <<".py", ".pyi">>,
   message |-> "Python file contains a bare \"pass\" statement. Implement the actual logic instead of using a placeholder."],
  [id |-> "no-not-implemented",
   \* /raise\s+NotImplementedError/
   pattern |-> RegExp(Cat(<<Lit("raise"), Sp1, Lit("NotImplementedError")>>),
                      FALSE),
   appliesTo |-> "file-write",
   fileExtensions |-> <<".py", ".pyi">>,
   message |-> "Code raises NotImplementedError. Implement the actual functionality instead of leaving a stub."],
  [id |-> "no-ellipsis",
   \* /^\s*\.\.\.\s*$/m
   pattern |-> RegExp(Cat(<<Bol, Sp0, Lit("..."), Sp0, Eol>>), FALSE),
   appliesTo |-> "file-write",
   fileExtensions |-> <<".py", ".pyi">>,
   message |-> "Python file contains an ellipsis (...) placeholder. Implement the actual logic."],
  [id |-> "no-placeholder-text",
   \* /\b(placeholder|stub|mock implementation|implement\s+this|
   \*     add\s+implementation\s+here|your\s+code\s+here)\b/i
   pattern |-> RegExp(Cat(<<WordB,
                 Alt(<<Lit("placeholder"), Lit("stub"),
                       Lit("mock implementation"),
                       Cat(<<Lit("implement"), Sp1, Lit("this")>>),
                       Cat(<<Lit("add"), Sp1, Lit("implementation"), Sp1,
                             Lit("here")>>),
                       Cat(<<Lit("your"), Sp1, Lit("code"), Sp1,
                             Lit("here")>>)>>),
                 WordB>>), TRUE),
   appliesTo |-> "file-write",
   fileExtensions |-> null,
   message |-> "Code contains placeholder/stub text. Write the complete implementation."],
  [id |-> "no-throw-not-impl",
   \* /throw\s+new\s+Error\s*\(\s*[quotes].*not\s+implemented/i
   pattern |-> RegExp(Cat(<<Lit("throw"), Sp1, Lit("new"), Sp1, Lit("Error"),
                            Sp0, Lit("("), Sp0, Quote3, Star(Dot),
                            Lit("not"), Sp1, Lit("implemented")>>), TRUE),
   appliesTo |-> "file-write",
   fileExtensions |-> JsExts,
   message |-> "Code throws a \"not implemented\" error. Implement the actual functionality."]
>>

CYCLE2_RULES == <<
  [id |-> "no-eval",
   \* /\beval\s*\(/
   pattern |-> RegExp(Cat(<<WordB, Lit("eval"), Sp0, Lit("(")>>), FALSE),
   appliesTo |-> "file-write",
   fileExtensions |-> JsExts \o <<".py">>,
   message |-> "Code uses eval(). This is a critical security risk (code injection). Use a safe alternative."],
  [id |-> "no-exec",
   \* /\bexec\s*\(/
   pattern |-> RegExp(Cat(<<WordB, Lit("exec"), Sp0, Lit("(")>>), FALSE),
   appliesTo |-> "file-write",
   fileExtensions |-> <<".py">>,
   message |-> "Python code uses exec(). This allows arbitrary code execution. Use a safe alternative."],
  [id |-> "no-os-system",
   \* /\bos\.system\s*\(/
   pattern |-> RegExp(Cat(<<WordB, Lit("os.system"), Sp0, Lit("(")>>), FALSE),
   appliesTo |-> "file-write",
   fileExtensions |-> <<".py">>,
   message |-> "Python code uses os.system(). Use subprocess.run() with shell=False instead."],
  [id |-> "no-shell-true",
   \* /shell\s*=\s*True/
   pattern |-> RegExp(Cat(<<Lit("shell"), Sp0, Lit("="), Sp0, Lit("True")>>),
                      FALSE),
   appliesTo |-> "file-write",
   fileExtensions |-> <<".py">>,
   message |-> "Python code uses shell=True in subprocess. This enables shell injection. Use shell=False and pass args as a list."],
  [id |-> "no-hardcoded-secrets",
   \* /(?:api[_-]?key|api[_-]?secret|password|passwd|secret[_-]?key|
   \*     access[_-]?token|auth[_-]?token|private[_-]?key)
   \*   \s*[:=]\s*[quotes][A-Za-z0-9+/=_\-]{8,}/i
   pattern |-> RegExp(Cat(<<
                 Alt(<<Cat(<<Lit("api"), SepOpt, Lit("key")>>),
                       Cat(<<Lit("api"), SepOpt, Lit("secret")>>),
                       Lit("password"), Lit("passwd"),
                       Cat(<<Lit("secret"), SepOpt, Lit("key")>>),
                       Cat(<<Lit("access"), SepOpt, Lit("token")>>),
                       Cat(<<Lit("auth"), SepOpt, Lit("token")>>),
                       Cat(<<Lit("private"), SepOpt, Lit("key")>>)>>),
                 Sp0, Cls({":", "="}), Sp0, Quote3,
                 Rep(Cls(UpperSet \cup LowerSet \cup DigitSet
                         \cup {"+", "/", "=", "_", "-"}), 8, -1)>>), TRUE),
   appliesTo |-> "file-write",
   fileExtensions |-> null,
   message |-> "Code contains what appears to be a hardcoded secret (API key, password, or token). Use environment variables or a secrets manager instead."],
  [id |-> "no-raw-sql",
   \* /(?:f[quotes].*(?:SELECT|...|CREATE)\s+.*\{|
   \*     (?:SELECT|...|CREATE)\s+.*(?:['"]\s*\+|\+\s*['"]|\$\{|%s|\.format\())/i
   pattern |-> RegExp(Alt(<<
                 Cat(<<Lit("f"), Quote3, Star(Dot), SqlVerb, Sp1, Star(Dot),
                       Lit("{")>>),
                 Cat(<<SqlVerb, Sp1, Star(Dot),
                       Alt(<<Cat(<<Quote2, Sp0, Lit("+")>>),
                             Cat(<<Lit("+"), Sp0, Quote2>>),
                             Lit("${"), Lit("%s"), Lit(".format(")>>)>>)>>),
                 TRUE),
   appliesTo |-> "file-write",
   fileExtensions |-> null,
   message |-> "Code constructs SQL using string concatenation/interpolation. Use parameterized queries to prevent SQL injection."],
  [id |-> "no-innerhtml",
   \* /\.innerHTML\s*=/
   pattern |-> RegExp(Cat(<<Lit(".innerHTML"), Sp0, Lit("=")>>), FALSE),
   appliesTo |-> "file-write",
   fileExtensions |-> JsExts \o <<".html">>,
   message |-> "Code assigns to .innerHTML which enables XSS attacks. Use .textContent or a sanitization library instead."],
  [id |-> "no-rm-rf",
   \* /rm\s+(-[a-zA-Z]*)?r[a-zA-Z]*f[a-zA-Z]*\s+
   \*     (?:\/\s|\/\*|\$HOME|\$\{HOME\}|~\/|\/root|C:\\)/i
   pattern |-> RegExp(Cat(<<Lit("rm"), Sp1,
                 Opt(Cat(<<Lit("-"), Star(AsciiLetters)>>)),
                 Lit("r"), Star(AsciiLetters), Lit("f"), Star(AsciiLetters),
                 Sp1,
                 Alt(<<Cat(<<Lit("/"), Cls(SpaceSet)>>), Lit("/*"),
                       Lit("$HOME"), Lit("${HOME}"), Lit("~/"), Lit("/root"),
                       Lit("C:\\")>>)>>), TRUE),
   appliesTo |-> "bash",
   fileExtensions |-> null,
   message |-> "Command attempts destructive recursive delete on a critical path. This could destroy the system."],
  [id |-> "no-chmod-777",
   \* /chmod\s+(?:.*\s)?777\b/
   pattern |-> RegExp(Cat(<<Lit("chmod"), Sp1,
                 Opt(Cat(<<Star(Dot), Cls(SpaceSet)>>)),
                 Lit("777"), WordB>>), FALSE),
   appliesTo |-> "bash",
   fileExtensions |-> null,
   message |-> "Command sets world-writable permissions (777). Use more restrictive permissions (e.g. 755 or 644)."],
  [id |-> "no-curl-pipe-sh",
   \* /(?:curl|wget)\s+.*\|\s*(?:ba)?sh/
   pattern |-> RegExp(Cat(<<Alt(<<Lit("curl"), Lit("wget")>>), Sp1, Star(Dot),
                 Lit("|"), Sp0, Opt(Lit("ba")), Lit("sh")>>), FALSE),
   appliesTo |-> "bash",
   fileExtensions |-> null,
   message |-> "Command pipes downloaded content directly to a shell. Download first, inspect, then execute."],
  [id |-> "no-insecure-url",
   \* /http:\/\/(?!localhost|127\.0\.0\.1|0\.0\.0\.0|\[::1\])/
   pattern |-> RegExp(Cat(<<Lit("http://"),
                 NotAhead(Alt(<<Lit("localhost"), Lit("127.0.0.1"),
                                Lit("0.0.0.0"), Lit("[::1]")>>))>>), FALSE),
   appliesTo |-> "web",
   fileExtensions |-> null,
   message |-> "URL uses insecure HTTP instead of HTTPS. Use HTTPS for all non-localhost connections."]
>>

\* Array.prototype.includes
ArrIncludes(arr, x) == \E k \in 1..Len(arr) : arr[k] = x

\* config.disabledRules || []
DisabledRulesOf(config) == config.disabledRules

\* the violation of rule when its pattern matches
Pushed(rule, cycle, content) ==
  IF Test(rule.pattern, content)
    THEN <<[ruleId |-> rule.id, cycle |-> cycle, message |-> rule.message]>>
    ELSE <<>>

\* a variant of RuleViolation that does not read config.disabledRules
RuleViolationNoDisabled(rule, cycle, content, fileExt, context, disabledRules) ==
  IF rule.appliesTo # "all" /\ rule.appliesTo # context THEN <<>>
  ELSE IF rule.fileExtensions # null /\ fileExt # ""
          /\ ~ArrIncludes(rule.fileExtensions, fileExt) THEN <<>>
  ELSE Pushed(rule, cycle, content)

\* a variant of RuleViolation that does not check the context
RuleViolationNoContext(rule, cycle, content, fileExt, context, disabledRules) ==
  IF ArrIncludes(disabledRules, rule.id) THEN <<>>
  ELSE IF rule.fileExtensions # null /\ fileExt # ""
          /\ ~ArrIncludes(rule.fileExtensions, fileExt) THEN <<>>
  ELSE Pushed(rule, cycle, content)

\* a variant of RuleViolation that does not check the file extension
RuleViolationNoExt(rule, cycle, content, fileExt, context, disabledRules) ==
  IF ArrIncludes(disabledRules, rule.id) THEN <<>>
  ELSE IF rule.appliesTo # "all" /\ rule.appliesTo # context THEN <<>>
  ELSE Pushed(rule, cycle, content)

\* a variant of RuleViolation that applies the extension list to a file
\* without extension too
RuleViolationExtRequired(rule, cycle, content, fileExt, context, disabledRules) ==
  IF ArrIncludes(disabledRules, rule.id) THEN <<>>
  ELSE IF rule.appliesTo # "all" /\ rule.appliesTo # context THEN <<>>
  ELSE IF rule.fileExtensions # null
          /\ ~ArrIncludes(rule.fileExtensions, fileExt) THEN <<>>
  ELSE Pushed(rule, cycle, content)

\* one pass of the loop body of _runRules for rule: the violation it pushes,
\* as a list of zero or one element
RuleViolation(rule, cycle, content, fileExt, context, disabledRules) ==
  IF ArrIncludes(disabledRules, rule.id) THEN <<>>
  ELSE IF rule.appliesTo # "all" /\ rule.appliesTo # context THEN <<>>
  ELSE IF rule.fileExtensions # null /\ fileExt # ""
          /\ ~ArrIncludes(rule.fileExtensions, fileExt) THEN <<>>
  ELSE Pushed(rule, cycle, content)

\* a variant of RunRulesFrom that stops at the first rule that matches
RECURSIVE RunRulesFromFirst(_, _, _, _, _, _, _)
RunRulesFromFirst(rules, k, cycle, content, fileExt, context, disabledRules) ==
  IF k > Len(rules) THEN <<>>
  ELSE LET v == RuleViolation(rules[k], cycle, content, fileExt, context,
                              disabledRules)
       IN  IF v # <<>> THEN v
           ELSE RunRulesFromFirst(rules, k + 1, cycle, content, fileExt,
                                  context, disabledRules)

RECURSIVE RunRulesFrom(_, _, _, _, _, _, _)
RunRulesFrom(rules, k, cycle, content, fileExt, context, disabledRules) ==
  IF k > Len(rules) THEN <<>>
  ELSE RuleViolation(rules[k], cycle, content, fileExt, context, disabledRules)
       \o RunRulesFrom(rules, k + 1, cycle, content, fileExt, context,
                       disabledRules)

\* _runRules(rules, content, fileExt, context, config); cycle is
\* rules === CYCLE1_RULES ? 1 : 2
runRules(rules, cycle, content, fileExt, context, config) ==
  RunRulesFrom(rules, 1, cycle, content, fileExt, context,
               DisabledRulesOf(config))

runCycle1(content, fileExt, context, config) ==
  runRules(CYCLE1_RULES, 1, content, fileExt, context, config)

runCycle2(content, fileExt, context, config) ==
  runRules(CYCLE2_RULES, 2, content, fileExt, context, config)


\* ------------------------------------------------------------------------
\* scripts/lib/research-verifier.mjs
\* ------------------------------------------------------------------------

VAGUE_PHRASES == <<
  "studies show",
  "research indicates",
  "experts say",
  "according to research",
  "data suggests",
  "it is known that",
  "generally accepted",
  "industry reports",
  "recent surveys",
  "analysts estimate",
  "sources suggest",
  "widely reported",
  "it has been shown",
  "evidence suggests"
>>

\* the words of a phrase, split at single spaces
RECURSIVE SplitWords(_, _, _)
SplitWords(w, i, cur) ==
  IF i > Len(w) THEN <<cur>>
  ELSE IF CharAt(w, i) = " " THEN <<cur>> \o SplitWords(w, i + 1, "")
  ELSE SplitWords(w, i + 1, cur \o CharAt(w, i))

\* p.replace(/\s+/g, '\\s+') as a pattern: the words with \s+ between them
RECURSIVE PhraseItems(_, _)
PhraseItems(ws, k) ==
  IF k > Len(ws) THEN <<>>
  ELSE (IF k = 1 THEN <<Lit(ws[k])>> ELSE <<Sp1, Lit(ws[k])>>)
       \o PhraseItems(ws, k + 1)

PhrasePattern(p) == Cat(PhraseItems(SplitWords(p, 1, ""), 1))

\* new RegExp(VAGUE_PHRASES.map(...).join('|'), 'i')
VAGUE_PATTERN ==
  RegExp(Alt([k \in 1..Len(VAGUE_PHRASES) |-> PhrasePattern(VAGUE_PHRASES[k])]),
         TRUE)

\* (\.\d+)?
Fraction == Opt(Cat(<<Lit("."), Digits1>>))

CLAIM_PATTERNS == <<
  \* /\d+(\.\d+)?\s*%/
  RegExp(Cat(<<Digits1, Fraction, Sp0, Lit("%")>>), FALSE),
  \* /\d+(\.\d+)?x\b/
  RegExp(Cat(<<Digits1, Fraction, Lit("x"), WordB>>), FALSE),
  \* /\d+-fold\b/i
  RegExp(Cat(<<Digits1, Lit("-fold"), WordB>>), TRUE),
  \* /\b\d{1,3}(,\d{3})+\b/
  RegExp(Cat(<<WordB, Rep(Cls(DigitSet), 1, 3),
               Plus(Cat(<<Lit(","), Rep(Cls(DigitSet), 3, 3)>>)), WordB>>),
         FALSE),
  \* /\$\s*\d+(\.\d+)?\s*(million|billion|trillion|[MBTmbt])\b/i
  RegExp(Cat(<<Lit("$"), Sp0, Digits1, Fraction, Sp0,
               Alt(<<Lit("million"), Lit("billion"), Lit("trillion"),
                     Cls({"M", "B", "T", "m", "b", "t"})>>), WordB>>), TRUE),
  \* /\b(study|survey|report)\s+(by|from|at)\b/i
  RegExp(Cat(<<WordB, Alt(<<Lit("study"), Lit("survey"), Lit("report")>>), Sp1,
               Alt(<<Lit("by"), Lit("from"), Lit("at")>>), WordB>>), TRUE),
  \* /\b[A-Z][a-z]+\s+(University|Institute|Lab)\b/
  RegExp(Cat(<<WordB, Cls(UpperSet), Plus(Cls(LowerSet)), Sp1,
               Alt(<<Lit("University"), Lit("Institute"), Lit("Lab")>>),
               WordB>>), FALSE),
  \* /\b\d+(\.\d+)?\s*times\s+(more|less|faster|slower|higher|lower|greater|
  \*                            better|worse)\b/i
  RegExp(Cat(<<WordB, Digits1, Fraction, Sp0, Lit("times"), Sp1,
               Alt(<<Lit("more"), Lit("less"), Lit("faster"), Lit("slower"),
                     Lit("higher"), Lit("lower"), Lit("greater"),
                     Lit("better"), Lit("worse")>>), WordB>>), TRUE),
  \* /\b(in|since|by|from)\s+\d{4}\b/i
  RegExp(Cat(<<WordB, Alt(<<Lit("in"), Lit("since"), Lit("by"), Lit("from")>>),
               Sp1, Rep(Cls(DigitSet), 4, 4), WordB>>), TRUE)
>>

\* https?:\/\/
HttpScheme == Cat(<<Lit("http"), Opt(Lit("s")), Lit("://")>>)

SOURCE_PATTERNS == <<
  \* /\[.*?\]\(https?:\/\/[^\s)]+\)/
  RegExp(Cat(<<Lit("["), Lazy(Dot, 0, -1), Lit("]("), HttpScheme,
               Plus(NCls(SpaceSet \cup {")"})), Lit(")")>>), FALSE),
  \* /https?:\/\/[^\s)>\]]+/
  RegExp(Cat(<<HttpScheme, Plus(NCls(SpaceSet \cup {")", ">", "]"}))>>), FALSE),
  \* /\[(Source|Ref|Verified):?[^\]]*\]/i
  RegExp(Cat(<<Lit("["), Alt(<<Lit("Source"), Lit("Ref"), Lit("Verified")>>),
               Opt(Lit(":")), Star(NCls({"]"})), Lit("]")>>), TRUE)
>>

VERIFICATION_TAG == "<!-- PERPLEXITY_VERIFIED -->"

SOURCE_PROXIMITY == 300

CYCLE4_RULES == <<
  [id |-> "no-vague-claims",
   appliesTo |-> "research-md",
   message |-> "Research file contains vague language (e.g. \"studies show\", \"experts say\"). Replace with specific, sourced claims: name the study, author, institution, and year, then link the source."],
  [id |-> "no-unverified-claims",
   appliesTo |-> "research-md",
   message |-> "Research file contains statistical or factual claims but is missing the <!-- PERPLEXITY_VERIFIED --> tag. Verify all claims using Perplexity MCP tools and add the tag to confirm verification."],
  [id |-> "no-unsourced-claims",
   appliesTo |-> "research-md",
   message |-> "Research file has the PERPLEXITY_VERIFIED tag but some claims lack a source URL within 300 characters. Add a markdown link, bare URL, or [Source:]/[Ref:]/[Verified:] marker near each claim."]
>>

\* the matches of the global copy of pattern p from position from on, each a
\* claim {text, index} with the 0-based index of the match
RECURSIVE GlobalMatches(_, _, _)
GlobalMatches(p, content, from) ==
  LET m == ExecFrom(p, content, from)
  IN  IF m = <<>> THEN <<>>
      ELSE <<[text |-> SubSeq(content, m[1], m[2] - 1), index |-> m[1] - 1]>>
           \o (IF m[2] > m[1] THEN GlobalMatches(p, content, m[2]) ELSE <<>>)

\* the claims of b whose key index:text no claim of a has, appended to a
RECURSIVE AddUnseen(_, _)
AddUnseen(a, b) ==
  IF b = <<>> THEN a
  ELSE IF \E k \in 1..Len(a) : a[k] = Head(b)
    THEN AddUnseen(a, Tail(b))
    ELSE AddUnseen(Append(a, Head(b)), Tail(b))

RECURSIVE ExtractFrom(_, _, _)
ExtractFrom(content, k, claims) ==
  IF k > Len(CLAIM_PATTERNS) THEN claims
  ELSE ExtractFrom(content, k + 1,
                   AddUnseen(claims, GlobalMatches(CLAIM_PATTERNS[k], content, 1)))

extractClaims(content) == ExtractFrom(content, 1, <<>>)

hasNearbySource(content, claimIndex) ==
  LET start  == Max(0, claimIndex - SOURCE_PROXIMITY)
      end    == Min(Len(content), claimIndex + SOURCE_PROXIMITY)
      window == Slice(content, start, end)
  IN  \E k \in 1..Len(SOURCE_PATTERNS) : Test(SOURCE_PATTERNS[k], window)

\* a variant of Unsourced that keeps every claim
UnsourcedAll(content, claims) == claims

\* claims.filter(claim => !hasNearbySource(content, claim.index))
Unsourced(content, claims) ==
  SelectSeq(claims, LAMBDA c : ~hasNearbySource(content, c.index))

\* a variant of HasVerificationTag that ignores letter case
HasVerificationTagAnyCase(content) ==
  Includes(toLowerCase(content), toLowerCase(VERIFICATION_TAG))

\* content.includes(VERIFICATION_TAG)
HasVerificationTag(content) == Includes(content, VERIFICATION_TAG)

\* Pass 1, lines 103-115: the violation for the first vague phrase, if the
\* rule is enabled and a phrase occurs
Pass1(content, disabledRules) ==
  LET match == IF ArrIncludes(disabledRules, "no-vague-claims")
                 THEN <<>>
                 ELSE ExecFrom(VAGUE_PATTERN, content, 1)
  IN  IF match # <<>>
        THEN <<[ruleId |-> "no-vague-claims", cycle |-> 4,
                message |-> CYCLE4_RULES[1].message \o "\n\nFound: \""
                            \o SubSeq(content, match[1], match[2] - 1)
                            \o "\""]>>
        ELSE <<>>

\* a variant of ClaimFindings that looks for sources whether or not the
\* marker is present
ClaimFindingsSourcesAlways(content, claims, disabledRules) ==
  IF ~HasVerificationTag(content)
     /\ ~ArrIncludes(disabledRules, "no-unverified-claims")
    THEN <<[ruleId |-> "no-unverified-claims", cycle |-> 4,
            message |-> CYCLE4_RULES[2].message \o "\n\nFound "
                        \o ToString(Len(claims))
                        \o " claim(s) without verification tag."]>>
  ELSE IF ~ArrIncludes(disabledRules, "no-unsourced-claims")
          /\ Len(Unsourced(content, claims)) > 0
    THEN <<[ruleId |-> "no-unsourced-claims", cycle |-> 4,
            message |-> CYCLE4_RULES[3].message \o "\n\nFound "
                        \o ToString(Len(Unsourced(content, claims)))
                        \o " unsourced claim(s)."]>>
  ELSE <<>>

\* lines 121-145: what Pass 2 finds for a non-empty list of claims
ClaimFindings(content, claims, disabledRules) ==
  LET hasVerificationTag == HasVerificationTag(content) IN
  IF ~hasVerificationTag /\ ~ArrIncludes(disabledRules, "no-unverified-claims")
    THEN <<[ruleId |-> "no-unverified-claims", cycle |-> 4,
            message |-> CYCLE4_RULES[2].message \o "\n\nFound "
                        \o ToString(Len(claims))
                        \o " claim(s) without verification tag."]>>
  ELSE IF hasVerificationTag
          /\ ~ArrIncludes(disabledRules, "no-unsourced-claims")
    THEN LET unsourced == Unsourced(content, claims) IN
         IF Len(unsourced) > 0
           THEN <<[ruleId |-> "no-unsourced-claims", cycle |-> 4,
                   message |-> CYCLE4_RULES[3].message \o "\n\nFound "
                               \o ToString(Len(unsourced))
                               \o " unsourced claim(s)."]>>
           ELSE <<>>
  ELSE <<>>

\* a variant of Pass2 that does not return early for an empty list of claims
Pass2NoEmptyReturn(content, disabledRules) ==
  ClaimFindings(content, extractClaims(content), disabledRules)

\* Pass 2, lines 117-145
Pass2(content, disabledRules) ==
  LET claims == extractClaims(content) IN
  IF Len(claims) = 0 THEN <<>>
  ELSE ClaimFindings(content, claims, disabledRules)

\* a variant of runCycle4 that goes on to Pass 2 after a vague phrase
runCycle4NoShortCircuit(content, filePath, config) ==
  LET disabledRules == DisabledRulesOf(config) IN
  IF content = "" THEN <<>>
  ELSE Pass1(content, disabledRules) \o Pass2(content, disabledRules)

\* content is a string here; the empty string is falsy (line 101); a vague
\* phrase returns at once (line 113)
runCycle4(content, filePath, config) ==
  LET disabledRules == DisabledRulesOf(config) IN
  IF content = "" THEN <<>>
  ELSE LET first == Pass1(content, disabledRules)
       IN  IF first # <<>> THEN first ELSE Pass2(content, disabledRules)

\* ------------------------------------------------------------------------
\* scripts/lib/utils.mjs
\* ------------------------------------------------------------------------

\* String.prototype.lastIndexOf(c), 0-based, -1 when c does not occur
LastIndexOf(s, c) ==
  LET at == {i \in 1..Len(s) : CharAt(s, i) = c}
  IN  IF at = {} THEN -1
      ELSE (CHOOSE i \in at : \A j \in at : j <= i) - 1

getFileExtension(filePath) ==
  IF filePath = "" THEN ""
  ELSE LET lastDot == LastIndexOf(filePath, ".")
       IN  IF lastDot = -1 \/ lastDot = Len(filePath) - 1 THEN ""
           ELSE toLowerCase(Slice(filePath, lastDot, Len(filePath)))

\* filePath.replace(/\\/g, '/')
RECURSIVE SlashFrom(_, _)
SlashFrom(s, i) ==
  IF i > Len(s) THEN ""
  ELSE (IF CharAt(s, i) = "\\" THEN "/" ELSE CharAt(s, i)) \o SlashFrom(s, i + 1)

\* normalized.split('/').pop()
LastSegment(s) == Slice(s, LastIndexOf(s, "/") + 1, Len(s))

\* a variant of isResearchFile that compares the path as it is given
isResearchFileAsGiven(filePath) ==
  IF filePath = "" THEN FALSE
  ELSE /\ EndsWith(filePath, ".md")
       /\ (Includes(filePath, "/research/")
           \/ Includes(LastSegment(filePath), "research"))

isResearchFile(filePath) ==
  IF filePath = "" THEN FALSE
  ELSE LET normalized == toLowerCase(SlashFrom(filePath, 1))
           fileName   == LastSegment(normalized)
       IN  /\ EndsWith(normalized, ".md")
           /\ (Includes(normalized, "/research/")
               \/ Includes(fileName, "research"))

\* ------------------------------------------------------------------------
\* scripts/pre-tool-gate.mjs
\* ------------------------------------------------------------------------

\* tool_input is the list of the entries of the JSON object, in order: each
\* [key, isString, value]; a value that is not a string keeps isString FALSE

\* toolInput[key] || '' for a key whose value, when present, is a string
Field(toolInput, key) ==
  LET at == {k \in 1..Len(toolInput) : toolInput[k].key = key}
  IN  IF at = {} THEN ""
      ELSE toolInput[CHOOSE k \in at : TRUE].value

RECURSIVE Join(_, _, _)
Join(xs, k, sep) ==
  IF k > Len(xs) THEN ""
  ELSE xs[k] \o (IF k < Len(xs) THEN sep ELSE "") \o Join(xs, k + 1, sep)

\* Object.values(toolInput).filter(v => typeof v === 'string').join('\n')
StringValues(toolInput) ==
  LET strs == SelectSeq(toolInput, LAMBDA e : e.isString)
  IN  Join([k \in 1..Len(strs) |-> strs[k].value], 1, "\n")

\* a variant of extractContent whose Edit branch reads content
extractContentEditReadsContent(toolName, toolInput) ==
  LET normalized == toLowerCase(toolName)
      filePath   == Field(toolInput, "file_path")
  IN  CASE normalized \in {"write", "edit"} ->
             [content |-> Field(toolInput, "content"), context |-> "file-write",
              fileExt |-> getFileExtension(filePath), filePath |-> filePath]
        [] normalized = "bash" ->
             [content |-> Field(toolInput, "command"), context |-> "bash",
              fileExt |-> "", filePath |-> ""]
        [] normalized \in {"webfetch", "websearch"} ->
             [content |-> IF Field(toolInput, "url") # ""
                            THEN Field(toolInput, "url")
                            ELSE Field(toolInput, "query"),
              context |-> "web", fileExt |-> "", filePath |-> ""]
        [] normalized \notin {"write", "edit", "bash", "webfetch", "websearch"}
           /\ StartsWith(normalized, "mcp_") ->
             [content |-> StringValues(toolInput), context |-> "mcp",
              fileExt |-> "", filePath |-> ""]
        [] OTHER ->
             [content |-> "", context |-> "unknown", fileExt |-> "",
              filePath |-> ""]

extractContent(toolName, toolInput) ==
  LET normalized == toLowerCase(toolName)
      filePath   == Field(toolInput, "file_path")
  IN  CASE normalized = "write" ->
             [content |-> Field(toolInput, "content"), context |-> "file-write",
              fileExt |-> getFileExtension(filePath), filePath |-> filePath]
        [] normalized = "edit" ->
             [content |-> Field(toolInput, "new_string"),
              context |-> "file-write",
              fileExt |-> getFileExtension(filePath), filePath |-> filePath]
        [] normalized = "bash" ->
             [content |-> Field(toolInput, "command"), context |-> "bash",
              fileExt |-> "", filePath |-> ""]
        [] normalized \in {"webfetch", "websearch"} ->
             [content |-> IF Field(toolInput, "url") # ""
                            THEN Field(toolInput, "url")
                            ELSE Field(toolInput, "query"),
              context |-> "web", fileExt |-> "", filePath |-> ""]
        [] normalized \notin {"write", "edit", "bash", "webfetch", "websearch"}
           /\ (StartsWith(normalized, "mcp__") \/ StartsWith(normalized, "mcp_")) ->
             [content |-> StringValues(toolInput), context |-> "mcp",
              fileExt |-> "", filePath |-> ""]
        [] OTHER ->
             [content |-> "", context |-> "unknown", fileExt |-> "",
              filePath |-> ""]

\* config.cycle4?.enabled !== false
Cycle4Enabled(config) == config.cycle4.enabled # "false"

\* a variant of RoutesToCycle4 that does not read cycle4.enabled
RoutesToCycle4NoToggle(filePath, config) == isResearchFile(filePath)

\* the gate routes a research file to cycle 4 alone
RoutesToCycle4(filePath, config) ==
  isResearchFile(filePath) /\ Cycle4Enabled(config)

\* [Cycle ${v.cycle} - ${v.ruleId}] ${v.message}
FormatViolation(v) ==
  "[Cycle " \o ToString(v.cycle) \o " - " \o v.ruleId \o "] " \o v.message

\* a variant of ReasonText that reports the first violation alone
ReasonTextFirstOnly(violations) ==
  "Triple Verification BLOCKED this operation:\n\n"
  \o FormatViolation(violations[1])
  \o "\n\nFix these issues and try again."

ReasonText(violations) ==
  "Triple Verification BLOCKED this operation:\n\n"
  \o Join([k \in 1..Len(violations) |-> FormatViolation(violations[k])], 1,
          "\n\n")
  \o "\n\nFix these issues and try again."


\* ------------------------------------------------------------------------
\* State
\* ------------------------------------------------------------------------

VARIABLES
  hook,          \* the hook script this process runs
  pc,            \* position of the hook's callback
  stdin,         \* what the host pipes to the hook
  config,        \* what loadConfig() returns
  project,       \* the directory tree under the project root
  auditWritable, \* whether appending to the audit log file succeeds
  configFiles,   \* the three configuration files loadConfig reads
  extracted,     \* {content, context, fileExt, filePath} of extractContent
  allViolations, \* the violation list the hook has collected
  calls,         \* the verifiers the hook has called, in order
  stdout,        \* the decision objects written to stdout, in order
  stderr,        \* the lines written to stderr, in order
  auditLog,      \* the records appended to the audit log, in order
  effects,       \* the streams and files the process wrote to, in order
  reads,         \* the files the hook has passed to a verifier, in order
  exitCodes,     \* the exit status of the process once it has ended
  call,          \* a direct call of the library: function and arguments
  pending,       \* the direct calls still to be made, in order
  returned,      \* whether the direct call has returned
  result,        \* the value the direct call returned
  thrown,        \* the error the direct call threw, "" when it returned
  lastIndex      \* lastIndex of each module-level RegExp object

\* what a run of a hook is given and never writes
inputVars == <<hook, stdin, config, project, auditWritable, configFiles>>

gateVars == <<hook, pc, stdin, config, project, auditWritable, configFiles,
              extracted,
              allViolations, calls, stdout, stderr, auditLog, effects, reads,
              exitCodes>>

engineVars == <<call, pending, returned, result, thrown, lastIndex>>

vars == <<hook, pc, stdin, config, project, auditWritable, configFiles,
          extracted,
          allViolations, calls, stdout, stderr, auditLog, effects, reads,
          exitCodes, call, pending, returned, result, thrown, lastIndex>>

\* ------------------------------------------------------------------------
\* Inputs
\* ------------------------------------------------------------------------

\* the largest number of rule ids in config.disabledRules
MaxDisabled == 1

\* how far around SOURCE_PROXIMITY the distance of a source from a claim varies
MaxDelta == 1

Entry(k, v) == [key |-> k, isString |-> TRUE, value |-> v]

NumEntry(k, v) == [key |-> k, isString |-> FALSE, value |-> v]

Cycle1Ids == [k \in 1..Len(CYCLE1_RULES) |-> CYCLE1_RULES[k].id]

Cycle2Ids == [k \in 1..Len(CYCLE2_RULES) |-> CYCLE2_RULES[k].id]

Cycle4Ids == [k \in 1..Len(CYCLE4_RULES) |-> CYCLE4_RULES[k].id]

Range(xs) == {xs[k] : k \in 1..Len(xs)}

\* the arrays of at most MaxDisabled ids of pool, in the order of pool
DisabledArrays(pool) ==
  {SelectSeq(pool, LAMBDA id : id \in S) :
     S \in {T \in SUBSET Range(pool) : Cardinality(T) <= MaxDisabled}}

RECURSIVE Pad(_)
Pad(n) ==
  IF n = 0 THEN ""
  ELSE LET h == Pad(n \div 2) IN h \o h \o (IF n % 2 = 1 THEN "x" ELSE "")

\* texts for the code-quality rules: each rule's trigger, alone or with another
Cycle1Texts == {
  "x = 1",
  "# TODO: fix\npass\n",
  "raise NotImplementedError",
  "def f():\n    ...\n",
  "// placeholder stub",
  "throw new Error('not implemented')",
  "# FIXME\neval(data)",
  "rm -rf ~/"
}

\* texts for the security rules
Cycle2Texts == {
  "x = 1",
  "# FIXME\neval(data)",
  "exec(code)",
  "os.system('ls')",
  "run(cmd, shell=True)",
  "password = 'hunter2hunter2'",
  "q = 'SELECT * FROM t WHERE id=' + id",
  "el.innerHTML = x",
  "rm -rf ~/",
  "rm -rf / && chmod 777 f",
  "rm -rf /",
  "curl http://example.com/i.sh | sh",
  "http://localhost:3000"
}

FileExts == {"", ".py", ".pyi", ".js", ".html", ".md"}

Contexts == {"file-write", "bash", "web", "mcp"}

Sources == <<"https://e.co", "[Source: e]", "[r](https://e.co)">>

\* a verified document whose claim "45%" starts d characters after the start
\* of its source (d > 0) or d characters before it (d < 0)
WindowText(src, d) ==
  IF d > 0
    THEN VERIFICATION_TAG \o "\n" \o src \o "\n" \o Pad(d - Len(src) - 1)
         \o "45% growth"
    ELSE VERIFICATION_TAG \o "\n" \o "45%" \o Pad(-d - 3) \o src \o "\n"

Deltas == (-MaxDelta)..MaxDelta

WindowTexts ==
  {WindowText(Sources[k], sign * (SOURCE_PROXIMITY + e)) :
     k \in 1..Len(Sources), sign \in {-1, 1}, e \in Deltas}

\* texts for the research verifier
ResearchTexts == {
  "",
  "This document describes the architecture of our system.",
  "Studies show growth.",
  "Experts  say revenue grew 45%.",
  "Revenue grew 45%.",
  "<!-- PERPLEXITY_VERIFIED -->\nNo numbers here.",
  "<!-- PERPLEXITY_VERIFIED -->\nStudies show that revenue grew by 45% [Source](https://example.com)",
  "<!-- PERPLEXITY VERIFIED -->\nRevenue grew by 45%.",
  "<!-- perplexity_verified -->\nRevenue grew by 45%.",
  "<!-- PERPLEXITY_VERIFIED -->\nRevenue grew 45% [Source: https://x.com].",
  "<!-- PERPLEXITY_VERIFIED -->\nRevenue grew 45% and 10x in 2023.",
  "<!-- PERPLEXITY_VERIFIED -->\nA study by Stanford University found 1,000,000 users.",
  "Grew 3-fold since 2020 [Ref: a] https://e.co",
  "It has been shown: $5 million, 3 times faster."
}


\* payloads of the operations the gate is given
GateTexts == {
  "",
  "x = 1",
  "# FIXME\neval(data)",
  "Studies show growth.",
  "Revenue grew 45%.",
  "<!-- PERPLEXITY_VERIFIED -->\nRevenue grew 45% [Source: https://x.com].",
  "rm -rf ~/ ; chmod 777 f",
  "http://example.com",
  "# TODO: stub\neval(exec(x))"
}

GatePaths == {
  "docs/research/q4.md",
  "research/findings.md",
  "notes\\Research-Log.MD",
  "README.md",
  "src/app.py",
  "src/app.js"
}

GateInputs ==
  {[tool_name |-> "Write",
    tool_input |-> <<Entry("file_path", p), Entry("content", t)>>] :
     p \in GatePaths, t \in GateTexts}
  \cup
  {[tool_name |-> "Edit",
    tool_input |-> <<Entry("file_path", p), Entry("old_string", "a"),
                     Entry("new_string", t)>>] :
     p \in GatePaths, t \in GateTexts}
  \cup
  {[tool_name |-> "Bash", tool_input |-> <<Entry("command", t)>>] :
     t \in GateTexts}
  \cup
  {[tool_name |-> "WebFetch", tool_input |-> <<Entry("url", t)>>] :
     t \in GateTexts}
  \cup
  {[tool_name |-> "WebSearch", tool_input |-> <<Entry("query", t)>>] :
     t \in GateTexts}
  \cup
  {[tool_name |-> "mcp__srv__run",
    tool_input |-> <<Entry("a", t), NumEntry("n", "5"), Entry("b", "ok")>>] :
     t \in GateTexts}
  \cup
  {[tool_name |-> "Read", tool_input |-> <<Entry("file_path", p)>>] :
     p \in GatePaths}
  \cup
  {[tool_name |-> "Write", tool_input |-> <<>>],
   [tool_name |-> "", tool_input |-> <<>>],
   [tool_name |-> "WRITE",
    tool_input |-> <<Entry("file_path", "src/App.PY"),
                     Entry("content", "# FIXME\neval(data)")>>],
   [tool_name |-> "Bash",
    tool_input |-> <<Entry("file_path", "docs/research/q4.md"),
                     Entry("command", "Studies show growth.")>>],
   [tool_name |-> "Bash", tool_input |-> <<Entry("command", "rm -rf /")>>],
   [tool_name |-> "WebFetch",
    tool_input |-> <<Entry("url", "http://example.com"),
                     Entry("query", "x = 1")>>],
   [tool_name |-> "mcp_tool",
    tool_input |-> <<Entry("q", "http://example.com")>>],
   [tool_name |-> "mcpserver",
    tool_input |-> <<Entry("a", "# FIXME\neval(data)")>>]}

\* the merged configurations: disabledRules (absent is the empty array) and
\* cycle4.enabled, "undefined" when the key is absent
GateConfigs ==
  {[disabledRules |-> d, cycle4 |-> [enabled |-> e],
    audit |-> [enabled |-> "undefined"]] :
     d \in DisabledArrays(<<"no-todo", "no-eval", "no-vague-claims">>),
     e \in {"undefined", "true", "false"}}
  \cup
  {[disabledRules |-> <<>>, cycle4 |-> [enabled |-> e],
    audit |-> [enabled |-> "false"]] : e \in {"undefined", "false"}}

\* ------------------------------------------------------------------------
\* The pre-tool gate (scripts/pre-tool-gate.mjs, lines 28-75)
\* ------------------------------------------------------------------------

\* the hooks below start from the configuration already merged
NoConfigFiles == <<>>

NoExtract == [content |-> "", context |-> "", fileExt |-> "", filePath |-> ""]

NoCall == [fn |-> "none", content |-> "", contentType |-> "string",
           fileExt |-> "", context |-> "",
           config |-> [type |-> "object", disabledRules |-> <<>>]]

\* the pre-tool gate reads no file of the project
NoProject == [name |-> "", kind |-> "dir", entries |-> <<>>]

\* the module-level RegExp objects: the rules' patterns, VAGUE_PATTERN and
\* SOURCE_PATTERNS (CLAIM_PATTERNS are only read for source and flags)
RegExpObjects ==
  Range(Cycle1Ids) \cup Range(Cycle2Ids)
  \cup {"VAGUE_PATTERN", "SOURCE_PATTERNS[0]", "SOURCE_PATTERNS[1]",
        "SOURCE_PATTERNS[2]"}

\* lastIndex of a RegExp object starts at 0
ZeroIndex == [r \in RegExpObjects |-> 0]

\* what stdin holds: nothing, a JSON object, or text JSON.parse rejects
GateStdin ==
  {[raw |-> "empty", tool_name |-> "", tool_input |-> <<>>],
   [raw |-> "invalid", tool_name |-> "", tool_input |-> <<>>]}
  \cup {[raw |-> "json", tool_name |-> i.tool_name,
         tool_input |-> i.tool_input] : i \in GateInputs}

Init ==
  /\ hook = "pre-tool"
  /\ pc = "start"
  /\ stdin \in GateStdin
  /\ config \in GateConfigs
  /\ project = NoProject
  /\ auditWritable \in BOOLEAN
  /\ extracted = NoExtract
  /\ allViolations = <<>>
  /\ calls = <<>>
  /\ stdout = <<>>
  /\ stderr = <<>>
  /\ auditLog = <<>>
  /\ effects = <<>>
  /\ configFiles = NoConfigFiles
  /\ reads = <<>>
  /\ exitCodes = <<>>
  /\ call = NoCall
  /\ pending = <<>>
  /\ returned = FALSE
  /\ result = <<>>
  /\ thrown = ""
  /\ lastIndex = ZeroIndex

\* approve() and deny(reason)
ApproveOutput == [decision |-> "approve", reason |-> ""]

DenyOutput(reason) == [decision |-> "block", reason |-> reason]

\* the line the catch of failOpen writes to stderr
FailOpenLine(message) ==
  "[triple-verify] Error (fail-open): " \o message \o "\n"

\* the line the catch of logEntry writes to stderr
AuditErrorLine(message) ==
  "[triple-verify] Audit log error: " \o message \o "\n"

\* err.message of JSON.parse and of a failed append; the engine's wording
\* depends on the text and on the platform, the model keeps one wording
JsonParseMessage == "Unexpected token in JSON"

AppendFailedMessage == "EACCES: permission denied"

\* logPreTool(tool, decision, violations, metadata): the record logEntry
\* appends
PreToolRecord(tool, decision, violations, metadata) ==
  [event |-> "pre-tool", tool |-> tool, decision |-> decision,
   violations |-> violations, metadata |-> metadata]

\* a variant of logEntry that records blocked operations only
logEntryBlocksOnly(log, record) ==
  IF auditWritable /\ record.decision = "block" THEN Append(log, record)
  ELSE log

\* logEntry(entry): the log after the call; an append that fails leaves it
\* as it was
logEntry(log, record) == IF auditWritable THEN Append(log, record) ELSE log

\* logEntry(entry): stderr after the call; the catch reports a failed append
logEntryErrors(err) ==
  IF auditWritable THEN err
  ELSE Append(err, AuditErrorLine(AppendFailedMessage))

\* logEntry(entry): what the call wrote to, the log file or, from the catch,
\* stderr
logEntryEffects == IF auditWritable THEN <<"audit">> ELSE <<"stderr">>

\* lines 29-33: no input, approve and exit
ReadNoInput ==
  /\ hook = "pre-tool"
  /\ pc = "start"
  /\ stdin.raw = "empty"
  /\ stdout' = Append(stdout, ApproveOutput)
  /\ exitCodes' = <<0>>
  /\ pc' = "done"
  /\ UNCHANGED <<extracted, allViolations, calls, stderr, auditLog>>
  /\ effects' = effects \o <<"stdout">>
  /\ UNCHANGED <<inputVars, reads>>
  /\ UNCHANGED engineVars

\* line 29 and utils.mjs lines 116-121: JSON.parse throws inside
\* readStdinJSON, the catch of failOpen reports it on stderr and exits
ReadInvalid ==
  /\ hook = "pre-tool"
  /\ pc = "start"
  /\ stdin.raw = "invalid"
  /\ stderr' = Append(stderr, FailOpenLine(JsonParseMessage))
  /\ exitCodes' = <<0>>
  /\ pc' = "failed"
  /\ UNCHANGED <<extracted, allViolations, calls, stdout, auditLog>>
  /\ effects' = effects \o <<"stderr">>
  /\ UNCHANGED <<inputVars, reads>>
  /\ UNCHANGED engineVars

\* lines 29, 35-40: the input is read and its content extracted
ReadInput ==
  /\ hook = "pre-tool"
  /\ pc = "start"
  /\ stdin.raw = "json"
  /\ extracted' = extractContent(stdin.tool_name, stdin.tool_input)
  /\ pc' = "extracted"
  /\ UNCHANGED <<allViolations, calls, stdout, stderr, auditLog, exitCodes>>
  /\ UNCHANGED <<inputVars, reads, effects>>
  /\ UNCHANGED engineVars

\* lines 42-47: nothing to verify
NoContent ==
  /\ hook = "pre-tool"
  /\ pc = "extracted"
  /\ extracted.content = ""
  /\ auditLog' = logEntry(auditLog,
                   PreToolRecord(stdin.tool_name, "approve", <<>>,
                                 [reason |-> "no-content"]))
  /\ stderr' = logEntryErrors(stderr)
  /\ stdout' = Append(stdout, ApproveOutput)
  /\ exitCodes' = <<0>>
  /\ pc' = "done"
  /\ UNCHANGED <<extracted, allViolations, calls>>
  /\ effects' = effects \o logEntryEffects \o <<"stdout">>
  /\ UNCHANGED <<inputVars, reads>>
  /\ UNCHANGED engineVars

\* lines 52-54: a research file goes to cycle 4 alone
RouteResearch ==
  /\ hook = "pre-tool"
  /\ pc = "extracted"
  /\ extracted.content # ""
  /\ RoutesToCycle4(extracted.filePath, config)
  /\ allViolations' = runCycle4(extracted.content, extracted.filePath, config)
  /\ calls' = calls \o <<"runCycle4">>
  /\ pc' = "routed"
  /\ UNCHANGED <<extracted, stdout, stderr, auditLog, exitCodes>>
  /\ UNCHANGED <<inputVars, reads, effects>>
  /\ UNCHANGED engineVars

\* lines 55-60: every other operation goes to cycles 1 and 2
RouteRules ==
  /\ hook = "pre-tool"
  /\ pc = "extracted"
  /\ extracted.content # ""
  /\ ~RoutesToCycle4(extracted.filePath, config)
  /\ allViolations' =
       runCycle1(extracted.content, extracted.fileExt, extracted.context, config)
       \o runCycle2(extracted.content, extracted.fileExt, extracted.context,
                    config)
  /\ calls' = calls \o <<"runCycle1", "runCycle2">>
  /\ pc' = "routed"
  /\ UNCHANGED <<extracted, stdout, stderr, auditLog, exitCodes>>
  /\ UNCHANGED <<inputVars, reads, effects>>
  /\ UNCHANGED engineVars

GateMetadata == [fileExt |-> extracted.fileExt, context |-> extracted.context]

\* a variant of Block in which a failed append is not caught by logEntry and
\* reaches the catch of failOpen
BlockAppendThrows ==
  /\ hook = "pre-tool"
  /\ pc = "routed"
  /\ Len(allViolations) > 0
  /\ auditLog' = logEntry(auditLog,
                   PreToolRecord(stdin.tool_name, "block", allViolations,
                                 GateMetadata))
  /\ stderr' = IF auditWritable THEN stderr
               ELSE Append(stderr, FailOpenLine(AppendFailedMessage))
  /\ stdout' = IF auditWritable
                 THEN Append(stdout, DenyOutput(ReasonText(allViolations)))
                 ELSE stdout
  /\ exitCodes' = <<0>>
  /\ pc' = IF auditWritable THEN "done" ELSE "failed"
  /\ effects' = effects \o (IF auditWritable THEN <<"audit", "stdout">>
                            ELSE <<"stderr">>)
  /\ UNCHANGED <<extracted, allViolations, calls>>
  /\ UNCHANGED <<inputVars, reads>>
  /\ UNCHANGED engineVars

\* lines 62-70; the callback returns and the process ends with status 0
Block ==
  /\ hook = "pre-tool"
  /\ pc = "routed"
  /\ Len(allViolations) > 0
  /\ auditLog' = logEntry(auditLog,
                   PreToolRecord(stdin.tool_name, "block", allViolations,
                                 GateMetadata))
  /\ stderr' = logEntryErrors(stderr)
  /\ stdout' = Append(stdout, DenyOutput(ReasonText(allViolations)))
  /\ exitCodes' = <<0>>
  /\ pc' = "done"
  /\ UNCHANGED <<extracted, allViolations, calls>>
  /\ effects' = effects \o logEntryEffects \o <<"stdout">>
  /\ UNCHANGED <<inputVars, reads>>
  /\ UNCHANGED engineVars

\* a variant of Approve that writes the decision before the record
ApproveBeforeLog ==
  /\ hook = "pre-tool"
  /\ pc = "routed"
  /\ Len(allViolations) = 0
  /\ stdout' = Append(stdout, ApproveOutput)
  /\ auditLog' = logEntry(auditLog,
                   PreToolRecord(stdin.tool_name, "approve", <<>>,
                                 GateMetadata))
  /\ stderr' = logEntryErrors(stderr)
  /\ exitCodes' = <<0>>
  /\ pc' = "done"
  /\ UNCHANGED <<extracted, allViolations, calls>>
  /\ effects' = effects \o <<"stdout">> \o logEntryEffects
  /\ UNCHANGED <<inputVars, reads>>
  /\ UNCHANGED engineVars

\* lines 71-74; the callback returns and the process ends with status 0
Approve ==
  /\ hook = "pre-tool"
  /\ pc = "routed"
  /\ Len(allViolations) = 0
  /\ auditLog' = logEntry(auditLog,
                   PreToolRecord(stdin.tool_name, "approve", <<>>,
                                 GateMetadata))
  /\ stderr' = logEntryErrors(stderr)
  /\ stdout' = Append(stdout, ApproveOutput)
  /\ exitCodes' = <<0>>
  /\ pc' = "done"
  /\ UNCHANGED <<extracted, allViolations, calls>>
  /\ effects' = effects \o logEntryEffects \o <<"stdout">>
  /\ UNCHANGED <<inputVars, reads>>
  /\ UNCHANGED engineVars

Next ==
  \/ ReadNoInput
  \/ ReadInvalid
  \/ ReadInput
  \/ NoContent
  \/ RouteResearch
  \/ RouteRules
  \/ Block
  \/ Approve

Spec == Init /\ [][Next]_vars


\* ------------------------------------------------------------------------
\* The post-tool audit (scripts/post-tool-audit.mjs)
\* ------------------------------------------------------------------------

\* whether toolInput[key] is truthy: present and not the empty string
Truthy(toolInput, key) ==
  \E k \in 1..Len(toolInput) :
    toolInput[k].key = key /\ toolInput[k].value # ""

\* typeof toolInput[key] === 'string'
IsStringField(toolInput, key) ==
  \E k \in 1..Len(toolInput) : toolInput[k].key = key /\ toolInput[k].isString

\* one key of metadata, set when toolInput[from] is truthy
MetadataKey(toolInput, from, key, value) ==
  IF Truthy(toolInput, from) THEN <<[key |-> key, value |-> value]>> ELSE <<>>

\* lines 27-48: the keys of metadata in the order they are set
PostMetadata(toolInput) ==
  MetadataKey(toolInput, "file_path", "filePath", Field(toolInput, "file_path"))
  \o MetadataKey(toolInput, "command", "command",
                 Slice(Field(toolInput, "command"), 0,
                       Min(200, Len(Field(toolInput, "command")))))
  \o MetadataKey(toolInput, "url", "url", Field(toolInput, "url"))
  \o MetadataKey(toolInput, "pattern", "pattern", Field(toolInput, "pattern"))
  \o MetadataKey(toolInput, "file_path", "applicableCycles",
                 IF IsStringField(toolInput, "file_path")
                    /\ isResearchFile(Field(toolInput, "file_path"))
                   THEN "Cycle 4 (Research Verification)"
                   ELSE "Cycles 1-3")

\* logPostTool(tool, metadata): the record logEntry appends
PostToolRecord(tool, metadata) ==
  [event |-> "post-tool", tool |-> tool, decision |-> "log-only",
   violations |-> <<>>, metadata |-> metadata]

\* line 34: toolInput.command.slice of a truthy value that is not a string
PostCommandThrows(toolInput) ==
  Truthy(toolInput, "command") /\ ~IsStringField(toolInput, "command")

PostInputs ==
  {[tool_name |-> "Write",
    tool_input |-> <<Entry("file_path", q), Entry("content", "x = 1")>>] :
     q \in GatePaths}
  \cup
  {[tool_name |-> "Bash", tool_input |-> <<Entry("command", t)>>] :
     t \in {"", "ls -la", "echo " \o Pad(200)}}
  \cup
  {[tool_name |-> n, tool_input |-> <<Entry("url", "http://example.com")>>] :
     n \in {"WebFetch", ""}}
  \cup
  {[tool_name |-> "Grep",
    tool_input |-> <<Entry("pattern", "TODO"), Entry("path", "src")>>],
   [tool_name |-> "Bash", tool_input |-> <<NumEntry("command", "5")>>],
   [tool_name |-> "Read", tool_input |-> <<NumEntry("file_path", "5")>>],
   [tool_name |-> "Read", tool_input |-> <<>>]}

InitPost ==
  /\ hook = "post-tool"
  /\ pc = "start"
  /\ stdin \in {[raw |-> "empty", tool_name |-> "", tool_input |-> <<>>],
                [raw |-> "invalid", tool_name |-> "", tool_input |-> <<>>]}
               \cup {[raw |-> "json", tool_name |-> i.tool_name,
                      tool_input |-> i.tool_input] : i \in PostInputs}
  /\ config \in GateConfigs
  /\ project = NoProject
  /\ auditWritable \in BOOLEAN
  /\ extracted = NoExtract
  /\ allViolations = <<>>
  /\ calls = <<>>
  /\ stdout = <<>>
  /\ stderr = <<>>
  /\ auditLog = <<>>
  /\ effects = <<>>
  /\ configFiles = NoConfigFiles
  /\ reads = <<>>
  /\ exitCodes = <<>>
  /\ call = NoCall
  /\ pending = <<>>
  /\ returned = FALSE
  /\ result = <<>>
  /\ thrown = ""
  /\ lastIndex = ZeroIndex

\* lines 18-21: no input, exit
PostNoInput ==
  /\ hook = "post-tool"
  /\ pc = "start"
  /\ stdin.raw = "empty"
  /\ exitCodes' = <<0>>
  /\ pc' = "done"
  /\ UNCHANGED <<extracted, allViolations, calls, stdout, stderr, auditLog>>
  /\ UNCHANGED <<inputVars, reads, effects>>
  /\ UNCHANGED engineVars

\* line 18 and utils.mjs lines 116-121: JSON.parse throws, failOpen catches
PostInvalid ==
  /\ hook = "post-tool"
  /\ pc = "start"
  /\ stdin.raw = "invalid"
  /\ stderr' = Append(stderr, FailOpenLine(JsonParseMessage))
  /\ exitCodes' = <<0>>
  /\ pc' = "failed"
  /\ UNCHANGED <<extracted, allViolations, calls, stdout, auditLog>>
  /\ effects' = effects \o <<"stderr">>
  /\ UNCHANGED <<inputVars, reads>>
  /\ UNCHANGED engineVars

\* a variant of PostThrows in which nothing catches the TypeError
PostThrowsUncaught ==
  /\ hook = "post-tool"
  /\ pc = "start"
  /\ stdin.raw = "json"
  /\ PostCommandThrows(stdin.tool_input)
  /\ stderr' = Append(stderr, "TypeError: toolInput.command.slice is not a function\n")
  /\ exitCodes' = <<1>>
  /\ pc' = "failed"
  /\ UNCHANGED <<extracted, allViolations, calls, stdout, auditLog>>
  /\ effects' = effects \o <<"stderr">>
  /\ UNCHANGED <<inputVars, reads>>
  /\ UNCHANGED engineVars

\* line 34 and utils.mjs lines 116-121: command is not a string, slice is not
\* a function, failOpen catches the TypeError
PostThrows ==
  /\ hook = "post-tool"
  /\ pc = "start"
  /\ stdin.raw = "json"
  /\ PostCommandThrows(stdin.tool_input)
  /\ stderr' = Append(stderr,
                 FailOpenLine("toolInput.command.slice is not a function"))
  /\ exitCodes' = <<0>>
  /\ pc' = "failed"
  /\ UNCHANGED <<extracted, allViolations, calls, stdout, auditLog>>
  /\ effects' = effects \o <<"stderr">>
  /\ UNCHANGED <<inputVars, reads>>
  /\ UNCHANGED engineVars

\* lines 23-54: the operation is logged and the process exits
PostLog ==
  /\ hook = "post-tool"
  /\ pc = "start"
  /\ stdin.raw = "json"
  /\ ~PostCommandThrows(stdin.tool_input)
  /\ auditLog' = logEntry(auditLog,
                   PostToolRecord(IF stdin.tool_name = "" THEN "unknown"
                                  ELSE stdin.tool_name,
                                  PostMetadata(stdin.tool_input)))
  /\ stderr' = logEntryErrors(stderr)
  /\ exitCodes' = <<0>>
  /\ pc' = "done"
  /\ UNCHANGED <<extracted, allViolations, calls, stdout>>
  /\ effects' = effects \o logEntryEffects
  /\ UNCHANGED <<inputVars, reads>>
  /\ UNCHANGED engineVars

NextPost ==
  \/ PostNoInput
  \/ PostInvalid
  \/ PostThrows
  \/ PostLog


\* ------------------------------------------------------------------------
\* The stop gate (scripts/stop-gate.mjs)
\* ------------------------------------------------------------------------

\* a node of the project tree: a directory with its entries in the order
\* readdirSync lists them, or a file with its text and whether it can be read
Dir(name, entries) ==
  [name |-> name, kind |-> "dir", content |-> "", readable |-> TRUE,
   entries |-> entries]

File(name, content, readable) ==
  [name |-> name, kind |-> "file", content |-> content, readable |-> readable,
   entries |-> <<>>]

\* findProjectRoot(process.cwd())
ProjectRoot == "/p"

\* the depth findMarkdownFiles is called with (line 101)
MaxScanDepth == 5

RECURSIVE findMarkdownFiles(_, _, _, _)
RECURSIVE FindInEntries(_, _, _, _, _)

\* lines 140-154: the loop over the entries of dir from the k-th on; a found
\* file is listed with its path and carries what readFileSync finds there
FindInEntries(entries, k, dir, maxDepth, currentDepth) ==
  IF k > Len(entries) THEN <<>>
  ELSE LET entry    == entries[k]
           fullPath == dir \o "/" \o entry.name
       IN  (IF entry.name = "node_modules" \/ StartsWith(entry.name, ".")
              THEN <<>>
            ELSE IF entry.kind = "dir"
              THEN findMarkdownFiles(entry, fullPath, maxDepth,
                                     currentDepth + 1)
            ELSE IF EndsWith(entry.name, ".md")
              THEN <<[filePath |-> fullPath, content |-> entry.content,
                      readable |-> entry.readable]>>
            ELSE <<>>)
           \o FindInEntries(entries, k + 1, dir, maxDepth, currentDepth)

\* findMarkdownFiles(dir, maxDepth, currentDepth): node is the directory at
\* path dir
findMarkdownFiles(node, dir, maxDepth, currentDepth) ==
  IF currentDepth >= maxDepth THEN <<>>
  ELSE FindInEntries(node.entries, 1, dir, maxDepth, currentDepth)

\* the entries of node named name
Named(node, name) == SelectSeq(node.entries, LAMBDA e : e.name = name)

\* lines 90-94 and 99: the directories of searchDirs that exist, each with
\* its path
SearchDirs(root) ==
  LET docs == Named(root, "docs")
      docsResearch == IF docs = <<>> THEN <<>> ELSE Named(docs[1], "research")
      research == Named(root, "research")
  IN  [k \in 1..Len(docsResearch) |->
         [node |-> docsResearch[k], dir |-> ProjectRoot \o "/docs/research"]]
      \o [k \in 1..Len(research) |->
           [node |-> research[k], dir |-> ProjectRoot \o "/research"]]
      \o [k \in 1..Len(docs) |->
           [node |-> docs[k], dir |-> ProjectRoot \o "/docs"]]

\* lines 98-103: the research files found under the search directories, in
\* the order the loops reach them
RECURSIVE ScannedFrom(_, _)
ScannedFrom(dirs, k) ==
  IF k > Len(dirs) THEN <<>>
  ELSE SelectSeq(findMarkdownFiles(dirs[k].node, dirs[k].dir, MaxScanDepth, 0),
                 LAMBDA f : isResearchFile(f.filePath))
       \o ScannedFrom(dirs, k + 1)

\* a variant of Verified in which a file that cannot be read is verified too
VerifiedUnreadableToo(files) == files

\* lines 105-113: the files readFileSync could read, which runCycle4 is
\* given
Verified(files) == SelectSeq(files, LAMBDA f : f.readable)

\* lines 107-110: the entries pushed to violations
RECURSIVE FileViolations(_, _, _)
FileViolations(files, k, cfg) ==
  IF k > Len(files) THEN <<>>
  ELSE LET fileViolations ==
             runCycle4(files[k].content, files[k].filePath, cfg)
       IN  (IF Len(fileViolations) > 0
              THEN <<[filePath |-> files[k].filePath,
                      violations |-> fileViolations]>>
              ELSE <<>>)
           \o FileViolations(files, k + 1, cfg)

\* lines 118-121
StopSummary(violations) ==
  Join([k \in 1..Len(violations) |->
          "File: " \o violations[k].filePath \o "\n"
          \o Join([n \in 1..Len(violations[k].violations) |->
                     "  " \o FormatViolation(violations[k].violations[n])],
                  1, "\n")],
       1, "\n\n")

\* line 123
StopReason(violations) ==
  "Triple Verification BLOCKED session completion:\n\n"
  \o StopSummary(violations)
  \o "\n\nFix these research file issues before completing."

\* texts of the research files of a project
StopTexts == {
  "Plain notes.",
  "Studies show growth.",
  "Revenue grew 45%."
}

\* project trees: research files under docs/research, research and docs,
\* files below dot-directories and node_modules, and files four and five
\* directories below a search directory
Projects ==
  {Dir("", <<
     Dir("docs", <<
       Dir(".cache", <<File("research.md", "Studies show growth.", TRUE)>>),
       File("guide.md", "Studies show growth.", TRUE),
       Dir("node_modules",
           <<File("research.md", "Studies show growth.", TRUE)>>),
       Dir("research", <<File("q4.md", t1, r1)>>),
       File("research-log.md", t2, TRUE),
       File("research.txt", "Studies show growth.", TRUE)
     >>),
     Dir("research", <<
       Dir("1", <<Dir("2", <<Dir("3", <<Dir("4", <<
         Dir("5", <<File("deeper.md", "Studies show growth.", TRUE)>>),
         File("deep.md", t3, TRUE)
       >>)>>)>>)>>),
       File("b.md", "Plain notes.", TRUE)
     >>),
     Dir("src", <<File("research.md", "Studies show growth.", TRUE)>>)
   >>) : t1 \in StopTexts, r1 \in BOOLEAN, t2 \in StopTexts, t3 \in StopTexts}
  \cup
  {Dir("", <<Dir("research", <<File("b.md", t, TRUE)>>)>>) : t \in StopTexts}
  \cup
  {Dir("", <<Dir("src", <<File("research.md", "Studies show growth.",
                                TRUE)>>)>>)}

InitStop ==
  /\ hook = "stop"
  /\ pc = "start"
  /\ stdin = [raw |-> "empty", tool_name |-> "", tool_input |-> <<>>]
  /\ config \in GateConfigs
  /\ project \in Projects
  /\ auditWritable = TRUE
  /\ extracted = NoExtract
  /\ allViolations = <<>>
  /\ calls = <<>>
  /\ stdout = <<>>
  /\ stderr = <<>>
  /\ auditLog = <<>>
  /\ effects = <<>>
  /\ configFiles = NoConfigFiles
  /\ reads = <<>>
  /\ exitCodes = <<>>
  /\ call = NoCall
  /\ pending = <<>>
  /\ returned = FALSE
  /\ result = <<>>
  /\ thrown = ""
  /\ lastIndex = ZeroIndex

\* lines 79-85: cycle 4 is switched off, approve and exit
StopDisabled ==
  /\ hook = "stop"
  /\ pc = "start"
  /\ ~Cycle4Enabled(config)
  /\ stdout' = Append(stdout, ApproveOutput)
  /\ exitCodes' = <<0>>
  /\ pc' = "done"
  /\ UNCHANGED <<extracted, allViolations, calls, stderr, auditLog>>
  /\ effects' = effects \o <<"stdout">>
  /\ UNCHANGED <<inputVars, reads>>
  /\ UNCHANGED engineVars

\* lines 87-115: the research files are found, read and verified
StopScan ==
  /\ hook = "stop"
  /\ pc = "start"
  /\ Cycle4Enabled(config)
  /\ LET files == Verified(ScannedFrom(SearchDirs(project), 1))
     IN  /\ reads' = [k \in 1..Len(files) |-> files[k].filePath]
         /\ calls' = [k \in 1..Len(files) |-> "runCycle4"]
         /\ allViolations' = FileViolations(files, 1, config)
  /\ pc' = "scanned"
  /\ UNCHANGED <<extracted, stdout, stderr, auditLog, exitCodes>>
  /\ UNCHANGED <<inputVars, effects>>
  /\ UNCHANGED engineVars

\* lines 117-123; the callback returns and the process ends with status 0
StopBlock ==
  /\ hook = "stop"
  /\ pc = "scanned"
  /\ Len(allViolations) > 0
  /\ stdout' = Append(stdout, DenyOutput(StopReason(allViolations)))
  /\ exitCodes' = <<0>>
  /\ pc' = "done"
  /\ UNCHANGED <<extracted, allViolations, calls, stderr, auditLog>>
  /\ effects' = effects \o <<"stdout">>
  /\ UNCHANGED <<inputVars, reads>>
  /\ UNCHANGED engineVars

\* lines 124-126; the callback returns and the process ends with status 0
StopApprove ==
  /\ hook = "stop"
  /\ pc = "scanned"
  /\ Len(allViolations) = 0
  /\ stdout' = Append(stdout, ApproveOutput)
  /\ exitCodes' = <<0>>
  /\ pc' = "done"
  /\ UNCHANGED <<extracted, allViolations, calls, stderr, auditLog>>
  /\ effects' = effects \o <<"stdout">>
  /\ UNCHANGED <<inputVars, reads>>
  /\ UNCHANGED engineVars

NextStop ==
  \/ StopDisabled
  \/ StopScan
  \/ StopBlock
  \/ StopApprove

\* ------------------------------------------------------------------------
\* The three hooks: a process runs one of them
\* ------------------------------------------------------------------------

InitHooks == Init \/ InitPost \/ InitStop

NextHooks == Next \/ NextPost \/ NextStop

SpecHooks == InitHooks /\ [][NextHooks]_vars


\* ------------------------------------------------------------------------
\* Calls of the engine one after another: what a call returns and what it
\* leaves in lastIndex of the module-level RegExp objects
\* ------------------------------------------------------------------------

\* the largest number of calls made one after another
MaxCalls == 2

\* what exec leaves in lastIndex of object p after finding m: without the g
\* flag lastIndex is left alone; with it lastIndex becomes the end of the
\* match, or 0 when there is none
ExecResult(p, m, li) ==
  IF ~p.g THEN [match |-> m, lastIndex |-> li]
  ELSE IF m = <<>> THEN [match |-> <<>>, lastIndex |-> 0]
  ELSE [match |-> m, lastIndex |-> m[2] - 1]

\* RegExp.prototype.exec, and test, on object p whose lastIndex is li: the
\* match and lastIndex afterwards. Without the g flag the search starts at
\* 0; with it the search starts at lastIndex and fails beyond the end
ExecAt(p, s, li) ==
  IF p.g /\ li > Len(s) THEN [match |-> <<>>, lastIndex |-> 0]
  ELSE ExecResult(p, ExecFrom(p, s, IF p.g THEN li + 1 ELSE 1), li)

\* rules-engine.mjs lines 202-210: whether the loop reaches the pattern test
Tested(rule, fileExt, context, disabledRules) ==
  /\ ~ArrIncludes(disabledRules, rule.id)
  /\ (rule.appliesTo = "all" \/ rule.appliesTo = context)
  /\ ~(rule.fileExtensions # null /\ fileExt # ""
       /\ ~ArrIncludes(rule.fileExtensions, fileExt))

\* rules-engine.mjs lines 212-219: the violation pushed when the test e of
\* the rule's pattern matched
RulePushed(rule, cycle, e) ==
  [violations |->
     IF e.match # <<>>
       THEN <<[ruleId |-> rule.id, cycle |-> cycle, message |-> rule.message]>>
       ELSE <<>>,
   lastIndex |-> e.lastIndex]

\* rules-engine.mjs lines 200-220 for one rule whose pattern has lastIndex li
RuleAt(rule, cycle, content, fileExt, context, disabledRules, li) ==
  IF ~Tested(rule, fileExt, context, disabledRules)
    THEN [violations |-> <<>>, lastIndex |-> li]
    ELSE RulePushed(rule, cycle, ExecAt(rule.pattern, content, li))

RECURSIVE RulesAtFrom(_, _, _, _, _, _, _, _)
RulesAtFrom(rules, k, cycle, content, fileExt, context, disabledRules, index) ==
  IF k > Len(rules) THEN <<>>
  ELSE RuleAt(rules[k], cycle, content, fileExt, context, disabledRules,
              index[rules[k].id]).violations
       \o RulesAtFrom(rules, k + 1, cycle, content, fileExt, context,
                      disabledRules, index)

\* _runRules from the state index of the RegExp objects: each rule's pattern
\* is its own object and is tested at most once in a call
runRulesAt(rules, cycle, content, fileExt, context, cfg, index) ==
  [violations |->
     RulesAtFrom(rules, 1, cycle, content, fileExt, context,
                 DisabledRulesOf(cfg), index),
   lastIndex |->
     [r \in DOMAIN index |->
        IF \E k \in 1..Len(rules) : rules[k].id = r
          THEN RuleAt(rules[CHOOSE k \in 1..Len(rules) : rules[k].id = r],
                      cycle, content, fileExt, context, DisabledRulesOf(cfg),
                      index[r]).lastIndex
          ELSE index[r]]]

SourceObject(k) ==
  CASE k = 1 -> "SOURCE_PATTERNS[0]"
    [] k = 2 -> "SOURCE_PATTERNS[1]"
    [] OTHER -> "SOURCE_PATTERNS[2]"

\* SOURCE_PATTERNS.some(p => p.test(window)) from the k-th pattern on: some
\* stops at the first pattern that matches; e is the test of the k-th pattern
RECURSIVE SomeSourceAt(_, _, _)
RECURSIVE SomeSourceAfter(_, _, _, _)
SomeSourceAfter(window, k, index, e) ==
  IF e.match # <<>>
    THEN [found |-> TRUE,
          lastIndex |-> [index EXCEPT ![SourceObject(k)] = e.lastIndex]]
    ELSE SomeSourceAt(window, k + 1,
                      [index EXCEPT ![SourceObject(k)] = e.lastIndex])

SomeSourceAt(window, k, index) ==
  IF k > Len(SOURCE_PATTERNS) THEN [found |-> FALSE, lastIndex |-> index]
  ELSE SomeSourceAfter(window, k, index,
                       ExecAt(SOURCE_PATTERNS[k], window,
                              index[SourceObject(k)]))

\* hasNearbySource from the state index
hasNearbySourceAt(content, claimIndex, index) ==
  SomeSourceAt(Slice(content, Max(0, claimIndex - SOURCE_PROXIMITY),
                     Min(Len(content), claimIndex + SOURCE_PROXIMITY)),
               1, index)

\* a claim that has no source nearby is kept, in front of the claims kept
\* after it
KeepUnsourced(claim, found, rest) ==
  [unsourced |-> (IF found THEN <<>> ELSE <<claim>>) \o rest.unsourced,
   lastIndex |-> rest.lastIndex]

\* claims.filter(claim => !hasNearbySource(content, claim.index)) from the
\* j-th claim on; near is what hasNearbySource found for the j-th claim, the
\* claims after it are filtered from the state it left
RECURSIVE UnsourcedAt(_, _, _, _)
RECURSIVE UnsourcedAfter(_, _, _, _)
UnsourcedAfter(content, claims, j, near) ==
  KeepUnsourced(claims[j], near.found,
                UnsourcedAt(content, claims, j + 1, near.lastIndex))

UnsourcedAt(content, claims, j, index) ==
  IF j > Len(claims) THEN [unsourced |-> <<>>, lastIndex |-> index]
  ELSE UnsourcedAfter(content, claims, j,
                      hasNearbySourceAt(content, claims[j].index, index))

\* research-verifier.mjs lines 135-143: the violation pushed for the
\* unsourced claims u
UnsourcedPushed(u) ==
  [violations |->
     IF Len(u.unsourced) > 0
       THEN <<[ruleId |-> "no-unsourced-claims", cycle |-> 4,
               message |-> CYCLE4_RULES[3].message \o "\n\nFound "
                           \o ToString(Len(u.unsourced))
                           \o " unsourced claim(s)."]>>
       ELSE <<>>,
   lastIndex |-> u.lastIndex]

\* research-verifier.mjs lines 119-145 for the extracted claims
Pass2Claims(content, disabledRules, index, claims, hasVerificationTag) ==
  IF Len(claims) = 0 THEN [violations |-> <<>>, lastIndex |-> index]
  ELSE IF ~hasVerificationTag
          /\ ~ArrIncludes(disabledRules, "no-unverified-claims")
    THEN [violations |->
            <<[ruleId |-> "no-unverified-claims", cycle |-> 4,
               message |-> CYCLE4_RULES[2].message \o "\n\nFound "
                           \o ToString(Len(claims))
                           \o " claim(s) without verification tag."]>>,
          lastIndex |-> index]
  ELSE IF hasVerificationTag
          /\ ~ArrIncludes(disabledRules, "no-unsourced-claims")
    THEN UnsourcedPushed(UnsourcedAt(content, claims, 1, index))
  ELSE [violations |-> <<>>, lastIndex |-> index]

\* research-verifier.mjs lines 117-145 from the state index
Pass2At(content, disabledRules, index) ==
  Pass2Claims(content, disabledRules, index, extractClaims(content),
              HasVerificationTag(content))

\* research-verifier.mjs lines 104-105: VAGUE_PATTERN.exec(content) unless
\* no-vague-claims is disabled
VagueMatchAt(content, disabledRules, li) ==
  IF ArrIncludes(disabledRules, "no-vague-claims")
    THEN [match |-> <<>>, lastIndex |-> li]
    ELSE ExecAt(VAGUE_PATTERN, content, li)

\* research-verifier.mjs lines 106-145: early return on a vague phrase,
\* pass 2 otherwise; e is what the match of VAGUE_PATTERN gave
Pass1At(content, disabledRules, index, e) ==
  IF e.match # <<>>
    THEN [violations |->
            <<[ruleId |-> "no-vague-claims", cycle |-> 4,
               message |-> CYCLE4_RULES[1].message \o "\n\nFound: \""
                           \o SubSeq(content, e.match[1], e.match[2] - 1)
                           \o "\""]>>,
          lastIndex |-> [index EXCEPT !["VAGUE_PATTERN"] = e.lastIndex]]
    ELSE Pass2At(content, disabledRules,
                 [index EXCEPT !["VAGUE_PATTERN"] = e.lastIndex])

\* runCycle4 from the state index
runCycle4At(content, filePath, cfg, index) ==
  IF content = "" THEN [violations |-> <<>>, lastIndex |-> index]
  ELSE Pass1At(content, DisabledRulesOf(cfg), index,
               VagueMatchAt(content, DisabledRulesOf(cfg),
                            index["VAGUE_PATTERN"]))

\* what call c returns, and leaves, from the state index
CallAt(c, index) ==
  CASE c.fn = "runCycle1" ->
         runRulesAt(CYCLE1_RULES, 1, c.content, c.fileExt, c.context,
                    c.config, index)
    [] c.fn = "runCycle2" ->
         runRulesAt(CYCLE2_RULES, 2, c.content, c.fileExt, c.context,
                    c.config, index)
    [] OTHER -> runCycle4At(c.content, "research/report.md", c.config, index)

\* the calls made one after another
SeqCalls ==
  {[fn |-> f, content |-> t, contentType |-> "string", fileExt |-> ".py",
    context |-> "file-write",
    config |-> [type |-> "object", disabledRules |-> <<>>]] :
     f \in {"runCycle1", "runCycle2"},
     t \in {"x = 1", "# TODO: fix\npass\n", "# FIXME\neval(data)"}}
  \cup
  {[fn |-> "runCycle4", content |-> t, contentType |-> "string",
    fileExt |-> "", context |-> "",
    config |-> [type |-> "object", disabledRules |-> <<>>]] :
     t \in {"Studies show growth.",
            "Revenue grew 45%.",
            "<!-- PERPLEXITY_VERIFIED -->\nRevenue grew 45% [Source: https://x.com].",
            "<!-- PERPLEXITY_VERIFIED -->\nRevenue grew 45% and 10x in 2023."}}

\* the sequences of one to MaxCalls calls
CallSequences ==
  UNION {[1..n -> SeqCalls] : n \in 1..MaxCalls}

InitSeq ==
  /\ hook = "none"
  /\ pc = "idle"
  /\ stdin = [raw |-> "empty", tool_name |-> "", tool_input |-> <<>>]
  /\ config = [disabledRules |-> <<>>, cycle4 |-> [enabled |-> "undefined"],
              audit |-> [enabled |-> "undefined"]]
  /\ project = NoProject
  /\ auditWritable = TRUE
  /\ extracted = NoExtract
  /\ allViolations = <<>>
  /\ calls = <<>>
  /\ stdout = <<>>
  /\ stderr = <<>>
  /\ auditLog = <<>>
  /\ effects = <<>>
  /\ configFiles = NoConfigFiles
  /\ reads = <<>>
  /\ exitCodes = <<>>
  /\ call = NoCall
  /\ pending \in CallSequences
  /\ returned = FALSE
  /\ result = <<>>
  /\ thrown = ""
  /\ lastIndex = ZeroIndex

\* the next pending call is made: it runs from the lastIndex the calls
\* before it left
NextCall(fn) ==
  /\ pending # <<>>
  /\ Head(pending).fn = fn
  /\ call' = Head(pending)
  /\ pending' = Tail(pending)
  /\ \E r \in {CallAt(Head(pending), lastIndex)} :
       /\ result' = r.violations
       /\ lastIndex' = r.lastIndex
  /\ thrown' = ""
  /\ returned' = TRUE
  /\ calls' = Append(calls, Head(pending))
  /\ UNCHANGED <<pc, extracted, allViolations, stdout, stderr, auditLog,
                 exitCodes>>
  /\ UNCHANGED <<inputVars, reads, effects>>

NextRunCycle1 == NextCall("runCycle1")

NextRunCycle2 == NextCall("runCycle2")

NextRunCycle4 == NextCall("runCycle4")

NextSeq ==
  \/ NextRunCycle1
  \/ NextRunCycle2
  \/ NextRunCycle4

SpecSeq == InitSeq /\ [][NextSeq]_vars


\* ------------------------------------------------------------------------
\* Direct calls of the engine: runCycle1, runCycle2 and runCycle4 applied to
\* arguments drawn from the input sets
\* ------------------------------------------------------------------------

\* one id of another cycle stands for the ids a cycle does not know
Cycle1Calls ==
  {[fn |-> "runCycle1", content |-> t, fileExt |-> x, context |-> c,
    contentType |-> "string",
    config |-> [type |-> "object", disabledRules |-> d]] :
     t \in Cycle1Texts, x \in FileExts, c \in Contexts,
     d \in DisabledArrays(Cycle1Ids \o <<"no-eval">>)}

Cycle2Calls ==
  {[fn |-> "runCycle2", content |-> t, fileExt |-> x, context |-> c,
    contentType |-> "string",
    config |-> [type |-> "object", disabledRules |-> d]] :
     t \in Cycle2Texts, x \in FileExts, c \in Contexts,
     d \in DisabledArrays(Cycle2Ids \o <<"no-todo">>)}

\* runCycle4(content, filePath, config): the path is not read
Cycle4Calls ==
  {[fn |-> "runCycle4", content |-> t, fileExt |-> "", context |-> "",
    contentType |-> "string",
    config |-> [type |-> "object", disabledRules |-> d]] :
     t \in ResearchTexts,
     d \in DisabledArrays(Cycle4Ids \o <<"no-todo">>)}
  \cup
  {[fn |-> "runCycle4", content |-> t, fileExt |-> "", context |-> "",
    contentType |-> "string",
    config |-> [type |-> "object", disabledRules |-> <<>>]] :
     t \in WindowTexts}

\* JavaScript values that are not the strings and objects the hooks pass:
\* content holds String(value), the text RegExp.prototype.test coerces to
MalformedContents == {
  [type |-> "null", str |-> "null"],
  [type |-> "undefined", str |-> "undefined"],
  [type |-> "string", str |-> ""],
  [type |-> "string", str |-> "   \n\n\t  "],
  [type |-> "number", str |-> "5"],
  [type |-> "string", str |-> "x = 1"]
}

\* a config argument: an object, or undefined or null
ConfigValues == {
  [type |-> "object", disabledRules |-> <<>>],
  [type |-> "undefined", disabledRules |-> <<>>],
  [type |-> "null", disabledRules |-> <<>>]
}

MalformedCalls ==
  {[fn |-> f, content |-> v.str, contentType |-> v.type, fileExt |-> x,
    context |-> "file-write", config |-> c] :
     f \in {"runCycle1", "runCycle2", "runCycle4"}, v \in MalformedContents,
     x \in {"", ".py"}, c \in ConfigValues}

\* arguments of isResearchFile
ResearchPaths == {
  "research/2024/q4-analysis.md",
  "research/findings.md",
  "a/b/c/research/d/report.md",
  "C:\\Users\\dev\\project\\research\\report.md",
  "docs/ai-research-findings.md",
  "docs/researcher/notes.md",
  "src/research-notes.md",
  "research/data.csv",
  "docs/RESEARCH/Report.MD",
  "/research/x.md",
  "\\research\\x.md",
  "docs/research/",
  "research.md",
  "research",
  "notes.md",
  "docs/my-research/notes.mdx",
  ".md"
}

PathCalls ==
  {[fn |-> "isResearchFile", content |-> t, contentType |-> "string",
    fileExt |-> "", context |-> "",
    config |-> [type |-> "undefined", disabledRules |-> <<>>]] :
     t \in ResearchPaths \cup {""}}
  \cup
  {[fn |-> "isResearchFile", content |-> v.str, contentType |-> v.type,
    fileExt |-> "", context |-> "",
    config |-> [type |-> "undefined", disabledRules |-> <<>>]] :
     v \in {[type |-> "null", str |-> "null"],
            [type |-> "undefined", str |-> "undefined"],
            [type |-> "number", str |-> "123"]}}

InitEngine ==
  /\ hook = "none"
  /\ pc = "idle"
  /\ stdin = [raw |-> "empty", tool_name |-> "", tool_input |-> <<>>]
  /\ config = [disabledRules |-> <<>>, cycle4 |-> [enabled |-> "undefined"],
              audit |-> [enabled |-> "undefined"]]
  /\ project = NoProject
  /\ auditWritable = TRUE
  /\ extracted = NoExtract
  /\ allViolations = <<>>
  /\ calls = <<>>
  /\ stdout = <<>>
  /\ stderr = <<>>
  /\ auditLog = <<>>
  /\ effects = <<>>
  /\ configFiles = NoConfigFiles
  /\ reads = <<>>
  /\ exitCodes = <<>>
  /\ call \in Cycle1Calls \cup Cycle2Calls \cup Cycle4Calls
              \cup MalformedCalls \cup PathCalls
  /\ pending = <<>>
  /\ returned = FALSE
  /\ result = <<>>
  /\ thrown = ""
  /\ lastIndex = ZeroIndex

\* rules-engine.mjs line 198: config.disabledRules of null throws; an
\* undefined config was replaced by {} (lines 167 and 179)
RunRulesThrows(cfg) == cfg.type = "null"

\* research-verifier.mjs line 101 and utils.mjs line 60: the value is falsy
\* or is not a string
NotAString(content, contentType) == contentType # "string" \/ content = ""

CallRunCycle1 ==
  /\ call.fn = "runCycle1"
  /\ ~returned
  /\ thrown' = IF RunRulesThrows(call.config) THEN "TypeError" ELSE ""
  /\ result' = IF RunRulesThrows(call.config) THEN <<>>
               ELSE runCycle1(call.content, call.fileExt, call.context,
                              call.config)
  /\ returned' = TRUE
  /\ UNCHANGED <<call, pending, lastIndex>>
  /\ UNCHANGED gateVars

CallRunCycle2 ==
  /\ call.fn = "runCycle2"
  /\ ~returned
  /\ thrown' = IF RunRulesThrows(call.config) THEN "TypeError" ELSE ""
  /\ result' = IF RunRulesThrows(call.config) THEN <<>>
               ELSE runCycle2(call.content, call.fileExt, call.context,
                              call.config)
  /\ returned' = TRUE
  /\ UNCHANGED <<call, pending, lastIndex>>
  /\ UNCHANGED gateVars

CallRunCycle4 ==
  /\ call.fn = "runCycle4"
  /\ ~returned
  /\ thrown' = ""
  /\ result' = IF NotAString(call.content, call.contentType) THEN <<>>
               ELSE runCycle4(call.content, "research/report.md", call.config)
  /\ returned' = TRUE
  /\ UNCHANGED <<call, pending, lastIndex>>
  /\ UNCHANGED gateVars

CallIsResearchFile ==
  /\ call.fn = "isResearchFile"
  /\ ~returned
  /\ thrown' = ""
  /\ result' = IF NotAString(call.content, call.contentType) THEN FALSE
               ELSE isResearchFile(call.content)
  /\ returned' = TRUE
  /\ UNCHANGED <<call, pending, lastIndex>>
  /\ UNCHANGED gateVars

NextEngine ==
  \/ CallRunCycle1
  \/ CallRunCycle2
  \/ CallRunCycle4
  \/ CallIsResearchFile

SpecEngine == InitEngine /\ [][NextEngine]_vars


\* ------------------------------------------------------------------------
\* scripts/lib/config-loader.mjs: JSON values, deepMerge, loadConfig
\* ------------------------------------------------------------------------

\* a JSON value: its type and what it holds; an object holds its entries in
\* the order of its keys
Obj(entries) == [t |-> "object", v |-> entries]

Arr(items) == [t |-> "array", v |-> items]

Str(text) == [t |-> "string", v |-> text]

Bool(b) == [t |-> "boolean", v |-> b]

Null == [t |-> "null", v |-> <<>>]

Key(k, value) == [key |-> k, val |-> value]

\* v && typeof v === 'object': an object or an array, not null
IsObjectLike(v) == v.t \in {"object", "array"}

\* typeof v === 'object' && v !== null && !Array.isArray(v)
IsPlainObject(v) == v.t = "object"

\* the own enumerable entries of an object or an array, whose keys are its
\* indices
EntriesOf(v) ==
  IF v.t = "array" THEN [k \in 1..Len(v.v) |-> Key(ToString(k - 1), v.v[k])]
  ELSE v.v

HasKey(entries, key) == \E k \in 1..Len(entries) : entries[k].key = key

ValueAt(entries, key) ==
  entries[CHOOSE k \in 1..Len(entries) : entries[k].key = key].val

\* result[key] = value: an existing key keeps its place, a new one comes last
SetKey(entries, key, value) ==
  IF HasKey(entries, key)
    THEN [k \in 1..Len(entries) |->
            IF entries[k].key = key THEN Key(key, value) ELSE entries[k]]
    ELSE Append(entries, Key(key, value))

RECURSIVE deepMerge(_, _)
RECURSIVE MergeKeys(_, _, _)

\* a variant of MergeKeys that concatenates two arrays
RECURSIVE MergeKeysConcatArrays(_, _, _)
MergeKeysConcatArrays(merged, override, k) ==
  IF k > Len(override) THEN merged
  ELSE LET key == override[k].key
           val == override[k].val
       IN  MergeKeysConcatArrays(
             SetKey(merged, key,
                    IF HasKey(merged, key) /\ val.t = "array"
                       /\ ValueAt(merged, key).t = "array"
                      THEN Arr(ValueAt(merged, key).v \o val.v)
                    ELSE IF IsPlainObject(val) /\ HasKey(merged, key)
                            /\ IsPlainObject(ValueAt(merged, key))
                      THEN deepMerge(ValueAt(merged, key), val)
                    ELSE val),
             override, k + 1)

\* lines 77-90: the loop over Object.keys(override) from the k-th key on;
\* merged is the result object so far
MergeKeys(merged, override, k) ==
  IF k > Len(override) THEN merged
  ELSE LET key == override[k].key
           val == override[k].val
       IN  MergeKeys(
             SetKey(merged, key,
                    IF IsPlainObject(val) /\ HasKey(merged, key)
                       /\ IsPlainObject(ValueAt(merged, key))
                      THEN deepMerge(ValueAt(merged, key), val)
                      ELSE val),
             override, k + 1)

deepMerge(base, override) ==
  IF ~IsObjectLike(override) THEN base
  ELSE IF ~IsObjectLike(base) THEN override
  ELSE Obj(MergeKeys(EntriesOf(base), EntriesOf(override), 1))

\* a configuration file: whether it exists, whether JSON.parse accepts its
\* text, and the value parsed
ConfigFile(value) == [exists |-> TRUE, valid |-> TRUE, value |-> value]

MissingFile == [exists |-> FALSE, valid |-> FALSE, value |-> Null]

InvalidFile == [exists |-> TRUE, valid |-> FALSE, value |-> Null]

\* loadJSONFile: {} for a missing file and for one that does not parse
loadJSONFile(file) ==
  IF ~file.exists THEN Obj(<<>>)
  ELSE IF ~file.valid THEN Obj(<<>>)
  ELSE file.value

\* line 64: the warning written for a file that exists and does not parse
ConfigWarnings(file) ==
  IF file.exists /\ ~file.valid
    THEN <<"[triple-verify] Config warning: Could not load "
           \o file.path \o ": " \o JsonParseMessage \o "\n">>
    ELSE <<>>

\* line 61: the files readFileSync is called on, in order
ExistingFiles(files) ==
  SelectSeq(<<files.defaults, files.user, files.project>>,
            LAMBDA f : f.exists)

loadConfig(files) ==
  deepMerge(deepMerge(loadJSONFile(files.defaults), loadJSONFile(files.user)),
            loadJSONFile(files.project))

\* the three files: plugin defaults, user configuration, project
\* configuration
DefaultsFiles ==
  {MissingFile,
   ConfigFile(Obj(<<Key("disabledRules", Arr(<<>>)),
                    Key("cycle4", Obj(<<Key("enabled", Bool(TRUE)),
                                        Key("proximity", Str("300"))>>)),
                    Key("audit", Obj(<<Key("enabled", Bool(TRUE))>>))>>)),
   ConfigFile(Obj(<<Key("disabledRules", Arr(<<Str("no-todo")>>)),
                    Key("cycle4", Arr(<<Str("on")>>))>>))}

UserFiles ==
  {MissingFile,
   InvalidFile,
   ConfigFile(Obj(<<Key("disabledRules", Arr(<<Str("no-eval")>>)),
                    Key("cycle4", Obj(<<Key("enabled", Bool(FALSE))>>))>>)),
   ConfigFile(Obj(<<Key("cycle4", Null), Key("auditDir", Str("/u"))>>)),
   ConfigFile(Obj(<<Key("cycle4", Obj(<<Key("proximity", Str("100")),
                                        Key("extra", Obj(<<Key("a", Str("u"))>>))>>)),
                    Key("disabledRules", Obj(<<Key("0", Str("x"))>>))>>)),
   ConfigFile(Arr(<<Str("no-eval")>>))}

ProjectFiles ==
  {MissingFile,
   InvalidFile,
   ConfigFile(Obj(<<>>)),
   ConfigFile(Obj(<<Key("disabledRules", Arr(<<Str("no-todo"), Str("no-rm-rf")>>))>>)),
   ConfigFile(Obj(<<Key("cycle4", Obj(<<Key("enabled", Bool(TRUE)),
                                        Key("extra", Obj(<<Key("b", Str("p"))>>))>>)),
                    Key("audit", Obj(<<Key("enabled", Bool(FALSE))>>))>>)),
   ConfigFile(Obj(<<Key("cycle4", Str("off")), Key("disabledRules", Arr(<<>>))>>)),
   ConfigFile(Null),
   ConfigFile(Str("x"))}

WithPath(file, path) ==
  [exists |-> file.exists, valid |-> file.valid, value |-> file.value,
   path |-> path]

InitConfig ==
  /\ hook = "none"
  /\ pc = "idle"
  /\ stdin = [raw |-> "empty", tool_name |-> "", tool_input |-> <<>>]
  /\ config = Obj(<<>>)
  /\ project = NoProject
  /\ auditWritable = TRUE
  /\ configFiles \in
       {[defaults |-> WithPath(d, "config/default-rules.json"),
         user |-> WithPath(u, "~/.claude/triple-verify-config.json"),
         project |-> WithPath(q, "/p/.claude/triple-verify-config.json")] :
          d \in DefaultsFiles, u \in UserFiles, q \in ProjectFiles}
  /\ extracted = NoExtract
  /\ allViolations = <<>>
  /\ calls = <<>>
  /\ stdout = <<>>
  /\ stderr = <<>>
  /\ auditLog = <<>>
  /\ effects = <<>>
  /\ reads = <<>>
  /\ exitCodes = <<>>
  /\ call = NoCall
  /\ pending = <<>>
  /\ returned = FALSE
  /\ result = <<>>
  /\ thrown = ""
  /\ lastIndex = ZeroIndex

\* loadConfig(): the three files are read and merged
LoadConfig ==
  /\ hook = "none"
  /\ pc = "idle"
  /\ configFiles # NoConfigFiles
  /\ config' = loadConfig(configFiles)
  /\ stderr' = stderr \o ConfigWarnings(configFiles.defaults)
                      \o ConfigWarnings(configFiles.user)
                      \o ConfigWarnings(configFiles.project)
  /\ effects' = effects
                \o [k \in 1..(Len(ConfigWarnings(configFiles.defaults))
                              + Len(ConfigWarnings(configFiles.user))
                              + Len(ConfigWarnings(configFiles.project)))
                      |-> "stderr"]
  /\ reads' = [k \in 1..Len(ExistingFiles(configFiles)) |->
                 ExistingFiles(configFiles)[k].path]
  /\ pc' = "loaded"
  /\ UNCHANGED <<hook, stdin, project, auditWritable, configFiles, extracted,
                 allViolations, calls, stdout, auditLog, exitCodes>>
  /\ UNCHANGED engineVars

NextConfig == LoadConfig

SpecConfig == InitConfig /\ [][NextConfig]_vars


\* ------------------------------------------------------------------------
\* Properties of the pre-tool gate (Spec)
\* ------------------------------------------------------------------------

\* the first position at or after from where w occurs in s, 0 when none
IndexOf(s, w, from) ==
  LET at == {i \in from..(Len(s) - Len(w) + 1) : SubSeq(s, i, i + Len(w) - 1) = w}
  IN  IF at = {} THEN 0 ELSE CHOOSE i \in at : \A j \in at : i <= j

\* text holds, from position from on and for each of violations[k..] in
\* turn, the cycle number, then the rule id, then the message
RECURSIVE ListedInOrder(_, _, _, _)
ListedInOrder(text, violations, k, from) ==
  IF k > Len(violations) THEN TRUE
  ELSE LET v == violations[k]
           c == IndexOf(text, ToString(v.cycle), from)
           r == IF c = 0 THEN 0 ELSE IndexOf(text, v.ruleId, c + 1)
           m == IF r = 0 THEN 0
                ELSE IndexOf(text, v.message, r + Len(v.ruleId))
       IN  m # 0 /\ ListedInOrder(text, violations, k + 1, m + Len(v.message))

\* C1: when the gate has finished, it has written 'block' if and only if the
\* merged violation list is non-empty and 'approve' otherwise, and the reason
\* of a block holds every violation's cycle number, rule id and message, in
\* list order.
C1_VerdictFollowsViolations ==
  pc = "done" =>
    /\ Len(stdout) = 1
    /\ stdout[1].decision =
         (IF Len(allViolations) > 0 THEN "block" ELSE "approve")
    /\ (stdout[1].decision = "block" =>
          ListedInOrder(stdout[1].reason, allViolations, 1, 1))

\* a block whose reason lists two violations
C1_Witness ==
  /\ pc = "done"
  /\ stdout[1].decision = "block"
  /\ Len(allViolations) >= 2
  /\ allViolations[1].ruleId # allViolations[2].ruleId

GateToolName == toLowerCase(stdin.tool_name)

GateFilePath == Field(stdin.tool_input, "file_path")

\* the body a Write or an Edit carries
GateBody ==
  IF GateToolName = "write" THEN Field(stdin.tool_input, "content")
  ELSE Field(stdin.tool_input, "new_string")

\* a Write or Edit to a research file while cycle 4 is not switched off
ResearchOperation ==
  /\ GateToolName \in {"write", "edit"}
  /\ isResearchFile(GateFilePath)
  /\ config.cycle4.enabled # "false"

\* C3: once the gate has consulted its verifiers for a non-empty payload, a
\* Write or Edit to a research file (cycle 4 not switched off) has exactly the
\* violations of runCycle4 on its body, none of cycle 1 or 2, and every other
\* operation has violations of cycles 1 and 2 only, runCycle4 not called.
C3_DispatchIsExclusive ==
  (pc \in {"routed", "done"} /\ extracted.content # "") =>
    IF ResearchOperation
      THEN /\ allViolations = runCycle4(GateBody, GateFilePath, config)
           /\ calls = <<"runCycle4">>
           /\ \A k \in 1..Len(allViolations) : allViolations[k].cycle = 4
      ELSE /\ calls # <<>>
           /\ "runCycle4" \notin Range(calls)
           /\ \A k \in 1..Len(allViolations) : allViolations[k].cycle \in {1, 2}

\* a research file whose body the code rules would have blocked is approved
\* by cycle 4 alone
C3_Witness ==
  /\ pc = "done"
  /\ ResearchOperation
  /\ calls = <<"runCycle4">>
  /\ allViolations = <<>>
  /\ runCycle1(GateBody, getFileExtension(GateFilePath), "file-write", config)
       # <<>>


\* whether a rule is enabled, applies to the operation's context and file
\* extension, and matches the payload
Fires(rule) ==
  /\ ~ArrIncludes(config.disabledRules, rule.id)
  /\ rule.appliesTo \in {"all", extracted.context}
  /\ \/ rule.fileExtensions = null
     \/ extracted.fileExt = ""
     \/ ArrIncludes(rule.fileExtensions, extracted.fileExt)
  /\ Test(rule.pattern, extracted.content)

\* the rule id and cycle number of each rule of the catalog that fires, in
\* declaration order
FiringOf(rules, cycle) ==
  LET firing == SelectSeq(rules, Fires)
  IN  [k \in 1..Len(firing) |-> <<firing[k].id, cycle>>]

\* C11: for an operation that is not routed to cycle 4, the merged list is,
\* in this order, one cycle-1 violation per code-quality rule that is
\* enabled, applicable and matching, in declaration order, then one cycle-2
\* violation per such security rule, in declaration order.
C11_MergedListInCatalogOrder ==
  (hook = "pre-tool" /\ pc \in {"routed", "done"}
   /\ calls = <<"runCycle1", "runCycle2">>) =>
    [k \in 1..Len(allViolations) |->
       <<allViolations[k].ruleId, allViolations[k].cycle>>]
    = FiringOf(CYCLE1_RULES, 1) \o FiringOf(CYCLE2_RULES, 2)

\* an operation with two code-quality violations followed by two security
\* violations
C11_Witness ==
  /\ hook = "pre-tool"
  /\ pc = "done"
  /\ calls = <<"runCycle1", "runCycle2">>
  /\ Len(allViolations) = 4
  /\ allViolations[2].cycle = 1
  /\ allViolations[3].cycle = 2


\* C12: a run of the pre-tool gate in which an exception escaped the
\* callback has written the approve decision to stdout when it exits.
C12_FailOpenWritesApprove ==
  (hook = "pre-tool" /\ pc = "failed") => stdout = <<ApproveOutput>>


\* the string the input object holds under key, '' when it holds none
Input(key) ==
  IF \E k \in 1..Len(stdin.tool_input) : stdin.tool_input[k].key = key
    THEN LET k == CHOOSE k \in 1..Len(stdin.tool_input) :
                    stdin.tool_input[k].key = key
         IN  stdin.tool_input[k].value
    ELSE ""

\* the string-valued inputs from the k-th entry on, one per line
RECURSIVE InputLines(_)
InputLines(k) ==
  IF k > Len(stdin.tool_input) THEN <<>>
  ELSE (IF stdin.tool_input[k].isString THEN <<stdin.tool_input[k].value>>
        ELSE <<>>) \o InputLines(k + 1)

RECURSIVE Joined(_)
Joined(lines) ==
  IF lines = <<>> THEN ""
  ELSE IF Len(lines) = 1 THEN Head(lines)
  ELSE Head(lines) \o "\n" \o Joined(Tail(lines))

LoweredToolName == toLowerCase(stdin.tool_name)

\* C16: the extracted payload, context, extension and path follow the table
\* on the lower-cased tool name (write, edit, bash, webfetch and websearch,
\* names starting with 'mcp_'); every other tool name gives the empty
\* payload, and on an empty payload the gate answers approve with an empty
\* violation list and calls no verifier.
C16_ExtractionIsAFixedTable ==
  (hook = "pre-tool" /\ stdin.raw = "json"
   /\ pc \in {"extracted", "routed", "done"}) =>
    /\ LoweredToolName = "write" =>
          extracted = [content |-> Input("content"), context |-> "file-write",
                       fileExt |-> getFileExtension(Input("file_path")),
                       filePath |-> Input("file_path")]
    /\ LoweredToolName = "edit" =>
          extracted = [content |-> Input("new_string"),
                       context |-> "file-write",
                       fileExt |-> getFileExtension(Input("file_path")),
                       filePath |-> Input("file_path")]
    /\ LoweredToolName = "bash" =>
          /\ extracted.content = Input("command")
          /\ extracted.context = "bash"
    /\ LoweredToolName \in {"webfetch", "websearch"} =>
          /\ extracted.content = (IF Input("url") # "" THEN Input("url")
                                  ELSE Input("query"))
          /\ extracted.context = "web"
    /\ StartsWith(LoweredToolName, "mcp_") =>
          /\ extracted.content = Joined(InputLines(1))
          /\ extracted.context = "mcp"
    /\ (LoweredToolName \notin {"write", "edit", "bash", "webfetch",
                                "websearch"}
        /\ ~StartsWith(LoweredToolName, "mcp_")) =>
          extracted.content = ""
    /\ (pc = "done" /\ extracted.content = "") =>
          /\ stdout = <<ApproveOutput>>
          /\ allViolations = <<>>
          /\ calls = <<>>

\* an MCP call whose two string inputs are joined, the number between them
\* left out, and verified under the 'mcp' context
C16_Witness ==
  /\ hook = "pre-tool"
  /\ pc = "done"
  /\ stdin.tool_name = "mcp__srv__run"
  /\ extracted = [content |-> "x = 1\nok", context |-> "mcp", fileExt |-> "",
                  filePath |-> ""]
  /\ calls = <<"runCycle1", "runCycle2">>

\* C18: a Write or Edit to a relative '.md' path whose first segment is the
\* directory 'research' is routed to cycle 4, and vague language in its
\* payload is blocked.
C18_LeadingResearchDirectoryIsResearch ==
  ( /\ hook = "pre-tool"
    /\ pc = "done"
    /\ stdin.raw = "json"
    /\ LoweredToolName \in {"write", "edit"}
    /\ StartsWith(Input("file_path"), "research/")
    /\ EndsWith(Input("file_path"), ".md")
    /\ Cycle4Enabled(config)
    /\ ~ArrIncludes(config.disabledRules, "no-vague-claims")
    /\ Test(VAGUE_PATTERN, extracted.content) )
  => /\ calls = <<"runCycle4">>
     /\ stdout = <<DenyOutput(ReasonText(allViolations))>>
     /\ \E k \in 1..Len(allViolations) :
          allViolations[k].ruleId = "no-vague-claims"

\* C19: the Bash command 'rm -rf /', whose last character is the root path,
\* gets a no-rm-rf violation from runCycle2 and the gate blocks the call.
C19_RmRfRootIsBlocked ==
  ( /\ hook = "pre-tool"
    /\ pc = "done"
    /\ stdin.raw = "json"
    /\ LoweredToolName = "bash"
    /\ Input("command") = "rm -rf /"
    /\ ~ArrIncludes(config.disabledRules, "no-rm-rf") )
  => /\ \E k \in 1..Len(allViolations) : allViolations[k].ruleId = "no-rm-rf"
     /\ stdout = <<DenyOutput(ReasonText(allViolations))>>

\* a string input holds an http:// URL whose host is not a local one
HasInsecureUrlInput ==
  \E k \in 1..Len(stdin.tool_input) :
    /\ stdin.tool_input[k].isString
    /\ Includes(stdin.tool_input[k].value, "http://")
    /\ \A h \in {"localhost", "127.0.0.1", "0.0.0.0", "::1"} :
         ~Includes(stdin.tool_input[k].value, "http://" \o h)

\* C20: an MCP tool call with an http:// URL to a host that is not local in
\* one of its string inputs gets a no-insecure-url violation and is blocked.
C20_InsecureUrlBlockedForMcp ==
  ( /\ hook = "pre-tool"
    /\ pc = "done"
    /\ stdin.raw = "json"
    /\ StartsWith(LoweredToolName, "mcp_")
    /\ HasInsecureUrlInput
    /\ ~ArrIncludes(config.disabledRules, "no-insecure-url") )
  => /\ \E k \in 1..Len(allViolations) :
          allViolations[k].ruleId = "no-insecure-url"
     /\ stdout = <<DenyOutput(ReasonText(allViolations))>>

\* ------------------------------------------------------------------------
\* Properties of the three hooks (SpecHooks)
\* ------------------------------------------------------------------------

\* C13: a hook that has ended, on success or after an error, ended with
\* exit status 0, and the post-tool audit has written no block decision.
C13_HooksExitZero ==
  /\ pc \in {"done", "failed"} => exitCodes = <<0>>
  /\ exitCodes \in {<<>>, <<0>>}
  /\ hook = "post-tool" =>
       \A k \in 1..Len(stdout) : stdout[k].decision # "block"

\* the post-tool audit has ended after a TypeError that failOpen caught
C13_Witness ==
  /\ hook = "post-tool"
  /\ pc = "failed"
  /\ stdin.raw = "json"
  /\ exitCodes = <<0>>
  /\ stdout = <<>>


\* ------------------------------------------------------------------------
\* Properties of calls made one after another (SpecSeq)
\* ------------------------------------------------------------------------

\* C14: whatever calls came before it, a call returns the list the same
\* call returns when it is the first one, and no call changes lastIndex of
\* a module-level RegExp object, the only state the engine could carry from
\* one call to the next.
C14_CallsAreStateless ==
  /\ lastIndex = ZeroIndex
  /\ returned => result = CallAt(call, ZeroIndex).violations

\* a call that found violations is repeated with the same arguments and
\* finds them again
C14_Witness ==
  /\ Len(calls) = 2
  /\ calls[1] = calls[2]
  /\ call = calls[2]
  /\ Len(result) >= 2


\* ------------------------------------------------------------------------
\* Properties of the engine (SpecEngine)
\* ------------------------------------------------------------------------

CallDisabled == call.config.disabledRules

ResultIds == {result[k].ruleId : k \in 1..Len(result)}

\* what the called function returns for the call's arguments under config c
ResultUnder(c) ==
  CASE call.fn = "runCycle1" ->
         runCycle1(call.content, call.fileExt, call.context, c)
    [] call.fn = "runCycle2" ->
         runCycle2(call.content, call.fileExt, call.context, c)
    [] OTHER -> runCycle4(call.content, "research/report.md", c)

\* the rules of the catalog the called function runs
CalledRules == IF call.fn = "runCycle1" THEN CYCLE1_RULES ELSE CYCLE2_RULES

RuleOf(id) ==
  LET all == CYCLE1_RULES \o CYCLE2_RULES
  IN  all[CHOOSE k \in 1..Len(all) : all[k].id = id]

RuleCall == returned /\ call.fn \in {"runCycle1", "runCycle2"}

ResearchCall == returned /\ call.fn = "runCycle4"

\* C2: no violation a call returns carries a rule id that
\* config.disabledRules holds.
C2_DisabledRulesNeverFire ==
  (RuleCall \/ ResearchCall) =>
    \A k \in 1..Len(result) : ~ArrIncludes(CallDisabled, result[k].ruleId)

\* a call whose disabled rule fires for the same arguments once it is enabled
C2_Witness ==
  /\ returned
  /\ \E r \in Range(CallDisabled) :
       LET enabled == ResultUnder([disabledRules |-> <<>>])
       IN  \E k \in 1..Len(enabled) : enabled[k].ruleId = r

\* Pass 1 fires: a vague phrase occurs and no-vague-claims is enabled
VagueFires ==
  /\ Test(VAGUE_PATTERN, call.content)
  /\ ~ArrIncludes(CallDisabled, "no-vague-claims")

\* C4: content with a vague phrase, no-vague-claims enabled, gets exactly one
\* violation, no-vague-claims of cycle 4, whatever else the content holds.
C4_VagueLanguageShortCircuits ==
  (ResearchCall /\ VagueFires) =>
    /\ Len(result) = 1
    /\ result[1].ruleId = "no-vague-claims"
    /\ result[1].cycle = 4

\* a vague phrase in a document that also has a claim, the marker and a source
C4_Witness ==
  /\ ResearchCall
  /\ VagueFires
  /\ Len(extractClaims(call.content)) > 0
  /\ Includes(call.content, "<!-- PERPLEXITY_VERIFIED -->")
  /\ Includes(call.content, "https://")
  /\ CallDisabled = <<>>

\* C5: when Pass 1 does not fire, claims without the exact marker get exactly
\* one violation, no-unverified-claims, if that rule is enabled.
C5_MissingMarkerBlocks ==
  (/\ ResearchCall
   /\ ~VagueFires
   /\ Len(extractClaims(call.content)) >= 1
   /\ ~Includes(call.content, "<!-- PERPLEXITY_VERIFIED -->")
   /\ ~ArrIncludes(CallDisabled, "no-unverified-claims"))
  =>
    /\ Len(result) = 1
    /\ result[1].ruleId = "no-unverified-claims"

\* a claim under a lowercase marker, every rule enabled
C5_Witness ==
  /\ ResearchCall
  /\ Includes(call.content, "<!-- perplexity_verified -->")
  /\ CallDisabled = <<>>
  /\ ResultIds = {"no-unverified-claims"}

\* the number of claims of content that have no source in their window
UnsourcedCount(content) ==
  LET claims == extractClaims(content)
  IN  Cardinality({k \in 1..Len(claims) :
                     ~hasNearbySource(content, claims[k].index)})

\* C6: when Pass 1 does not fire, the marker is present and
\* no-unsourced-claims is enabled, the result is one no-unsourced-claims
\* violation whose message counts the claims without a nearby source if
\* there is such a claim, and empty otherwise.
C6_OneViolationForUnsourcedClaims ==
  (/\ ResearchCall
   /\ ~VagueFires
   /\ Includes(call.content, "<!-- PERPLEXITY_VERIFIED -->")
   /\ ~ArrIncludes(CallDisabled, "no-unsourced-claims"))
  =>
    LET n == UnsourcedCount(call.content)
    IN  IF n > 0
          THEN /\ Len(result) = 1
               /\ result[1].ruleId = "no-unsourced-claims"
               /\ EndsWith(result[1].message,
                           "\n\nFound " \o ToString(n) \o " unsourced claim(s).")
          ELSE result = <<>>

\* several unsourced claims under the marker, one violation
C6_Witness ==
  /\ ResearchCall
  /\ CallDisabled = <<>>
  /\ Includes(call.content, "<!-- PERPLEXITY_VERIFIED -->")
  /\ UnsourcedCount(call.content) >= 2
  /\ Len(result) = 1
  /\ result[1].ruleId = "no-unsourced-claims"

\* C7: a source that begins SOURCE_PROXIMITY characters before or after the
\* start of a claim is nearby, and one that begins one character further away,
\* on either side, is not.
C7_SourceWindowIsSymmetric ==
  ResearchCall =>
    \A k \in 1..Len(Sources), sign \in {-1, 1}, e \in {0, 1} :
      call.content = WindowText(Sources[k], sign * (SOURCE_PROXIMITY + e)) =>
        (hasNearbySource(call.content, extractClaims(call.content)[1].index)
           <=> e = 0)

\* C8, as claimed: content without a claim gets the empty list.
C8_ClaimFreeNeverBlocks ==
  (ResearchCall /\ Len(extractClaims(call.content)) = 0) => result = <<>>

\* C8, amended: content without a claim on which Pass 1 does not fire gets
\* the empty list, with or without the marker.
C8_ClaimFreeWithoutVagueNeverBlocks ==
  (ResearchCall /\ ~VagueFires /\ Len(extractClaims(call.content)) = 0)
    => result = <<>>

\* a document of plain prose: no claim, no vague phrase, no marker, every
\* rule enabled
C8_Witness ==
  /\ ResearchCall
  /\ call.content # ""
  /\ CallDisabled = <<>>
  /\ ~VagueFires
  /\ Len(extractClaims(call.content)) = 0
  /\ ~Includes(call.content, "<!-- PERPLEXITY_VERIFIED -->")
  /\ result = <<>>

\* C9: every violation of runCycle1 and runCycle2 comes from a rule whose
\* appliesTo is 'all' or the context of the call.
C9_ContextIsolation ==
  RuleCall =>
    \A k \in 1..Len(result) :
      RuleOf(result[k].ruleId).appliesTo \in {"all", call.context}

\* under context 'mcp', an enabled rule of another context whose pattern
\* matches and whose extension filter passes stays silent
C9_Witness ==
  /\ RuleCall
  /\ call.context = "mcp"
  /\ result = <<>>
  /\ \E k \in 1..Len(CalledRules) :
       LET rule == CalledRules[k]
       IN  /\ rule.appliesTo \in {"file-write", "bash"}
           /\ ~ArrIncludes(CallDisabled, rule.id)
           /\ (rule.fileExtensions = null
               \/ ArrIncludes(rule.fileExtensions, call.fileExt))
           /\ Test(rule.pattern, call.content)

\* C10: for a non-empty declared extension, every violation of runCycle1 and
\* runCycle2 comes from a rule without an extension list or with the
\* extension in its list.
C10_FileTypeIsolation ==
  (RuleCall /\ call.fileExt # "") =>
    \A k \in 1..Len(result) :
      LET rule == RuleOf(result[k].ruleId)
      IN  rule.fileExtensions = null
          \/ ArrIncludes(rule.fileExtensions, call.fileExt)

\* a '.js' file whose content matches a Python-only rule: the rule is silent
\* while an unscoped rule fires
C10_Witness ==
  /\ RuleCall
  /\ call.fileExt = ".js"
  /\ call.context = "file-write"
  /\ CallDisabled = <<>>
  /\ result # <<>>
  /\ \E k \in 1..Len(CalledRules) :
       LET rule == CalledRules[k]
       IN  /\ rule.fileExtensions # null
           /\ ArrIncludes(rule.fileExtensions, ".py")
           /\ ~ArrIncludes(rule.fileExtensions, ".js")
           /\ Test(rule.pattern, call.content)
           /\ rule.id \notin ResultIds

\* content with no character other than blanks, tabs and line breaks
WhitespaceOnly(s) ==
  \A i \in 1..Len(s) : CharAt(s, i) \in {" ", "\t", "\n", "\r"}

\* C15: a call of runCycle1, runCycle2 or runCycle4 whose content is null,
\* undefined, empty, whitespace-only or not a string and whose config is
\* undefined or null raises no exception and returns the empty list.
C15_TotalOnMalformedInput ==
  ( /\ returned
    /\ call.fn \in {"runCycle1", "runCycle2", "runCycle4"}
    /\ (call.contentType # "string" \/ WhitespaceOnly(call.content))
    /\ call.config.type \in {"undefined", "null"} )
  => (thrown = "" /\ result = <<>>)

\* the segments of a path, cut at forward and backward slashes, from
\* position i on; cur is the segment being read
RECURSIVE PathSegments(_, _, _)
PathSegments(path, i, cur) ==
  IF i > Len(path) THEN <<cur>>
  ELSE IF CharAt(path, i) \in {"/", "\\"}
    THEN <<cur>> \o PathSegments(path, i + 1, "")
  ELSE PathSegments(path, i + 1, cur \o CharAt(path, i))

\* the path with every letter in the other case
RECURSIVE SwapCase(_, _)
SwapCase(path, i) ==
  IF i > Len(path) THEN ""
  ELSE (IF CharAt(path, i) \in LowerSet THEN UpperChar(CharAt(path, i))
        ELSE LowerChar(CharAt(path, i))) \o SwapCase(path, i + 1)

\* the path with every forward slash replaced by a backslash
RECURSIVE Backslashed(_, _)
Backslashed(path, i) ==
  IF i > Len(path) THEN ""
  ELSE (IF CharAt(path, i) = "/" THEN "\\" ELSE CharAt(path, i))
       \o Backslashed(path, i + 1)

\* the path ends in '.md' and either a segment between two separators is
\* 'research' or the final segment contains 'research', letter case aside
NamesResearch(path) ==
  LET segments == PathSegments(toLowerCase(path), 1, "")
      final    == segments[Len(segments)]
  IN  /\ EndsWith(final, ".md")
      /\ \/ \E k \in 2..(Len(segments) - 1) : segments[k] = "research"
         \/ Includes(final, "research")

PathCall == returned /\ call.fn = "isResearchFile"

C26_EmptyExtensionSkipsFileTypeFilter ==
  (RuleCall /\ thrown = "" /\ call.fileExt = "") =>
    \A k \in 1..Len(CalledRules) :
      LET rule == CalledRules[k]
      IN  ( /\ ~ArrIncludes(CallDisabled, rule.id)
            /\ rule.appliesTo \in {"all", call.context}
            /\ Test(rule.pattern, call.content) )
          => rule.id \in ResultIds

\* a file without extension written with content a Python-only rule matches
C26_Witness ==
  /\ RuleCall
  /\ call.fileExt = ""
  /\ call.context = "file-write"
  /\ \E k \in 1..Len(CalledRules) :
       /\ CalledRules[k].fileExtensions # null
       /\ Len(CalledRules[k].fileExtensions) <= 2
       /\ ArrIncludes(CalledRules[k].fileExtensions, ".py")
       /\ CalledRules[k].id \in ResultIds
\* content with a claim and no marker, verified with 'no-unverified-claims'
\* disabled, in which Pass 1 reports nothing
UnmarkedClaimsUnchecked ==
  /\ ResearchCall
  /\ thrown = ""
  /\ call.contentType = "string"
  /\ call.config.type = "object"
  /\ Len(extractClaims(call.content)) >= 1
  /\ ~Includes(call.content, VERIFICATION_TAG)
  /\ ArrIncludes(CallDisabled, "no-unverified-claims")
  /\ ( \/ ArrIncludes(CallDisabled, "no-vague-claims")
       \/ ~Test(VAGUE_PATTERN, call.content) )

\* C27: without the marker and with 'no-unverified-claims' disabled,
\* runCycle4 returns the empty list for content that has claims and no vague
\* phrase to report, whether or not 'no-unsourced-claims' is enabled and
\* whether or not the claims have sources.
C27_NoMarkerNoSourceCheck ==
  UnmarkedClaimsUnchecked => result = <<>>

\* such a call with 'no-unsourced-claims' enabled and a claim without source
C27_Witness ==
  /\ UnmarkedClaimsUnchecked
  /\ ~ArrIncludes(CallDisabled, "no-unsourced-claims")
  /\ \E k \in 1..Len(extractClaims(call.content)) :
       ~hasNearbySource(call.content, extractClaims(call.content)[k].index)
  /\ result = <<>>

\* ------------------------------------------------------------------------
\* Properties of the audit trail (SpecHooks)
\* ------------------------------------------------------------------------

\* the pre-tool gate has read an operation descriptor
ReadsOperation == hook = "pre-tool" /\ stdin.raw = "json"

\* the gate has logged the operation once, with the decision it wrote and
\* the violations the decision rests on
LoggedOnce ==
  /\ Len(auditLog) = 1
  /\ Len(stdout) = 1
  /\ auditLog[1].event = "pre-tool"
  /\ auditLog[1].tool = stdin.tool_name
  /\ auditLog[1].decision = stdout[1].decision
  /\ auditLog[1].violations = allViolations
  /\ (auditLog[1].decision = "block") = (allViolations # <<>>)

\* xs is an initial part of ys
IsPrefix(xs, ys) == Len(xs) <= Len(ys) /\ SubSeq(ys, 1, Len(xs)) = xs

DecisionFor(violations) ==
  IF violations = <<>> THEN ApproveOutput
  ELSE DenyOutput(ReasonText(violations))

\* C25: when the append of the audit record fails, logEntry swallows the
\* error (one line on stderr) and the pre-tool gate ends normally with the
\* decision it writes when the append succeeds: the one that follows from
\* the violations.
C25_AuditFailureDoesNotChangeDecision ==
  (ReadsOperation /\ ~auditWritable /\ pc \in {"done", "failed"}) =>
    /\ pc = "done"
    /\ stdout = <<DecisionFor(allViolations)>>
    /\ stderr = <<AuditErrorLine(AppendFailedMessage)>>
    /\ auditLog = <<>>
    /\ exitCodes = <<0>>

\* a blocked operation whose audit record could not be appended
C25_Witness ==
  /\ ReadsOperation
  /\ ~auditWritable
  /\ pc = "done"
  /\ stdout # <<>>
  /\ stdout[1].decision = "block"
  /\ stderr = <<AuditErrorLine(AppendFailedMessage)>>

\* C22: when the merged configuration has audit.enabled = false, neither the
\* pre-tool gate nor the post-tool audit appends a record to the audit log.
C22_DisabledAuditLogsNothing ==
  (hook \in {"pre-tool", "post-tool"} /\ config.audit.enabled = "false")
    => auditLog = <<>>


\* ------------------------------------------------------------------------
\* Properties of the configuration loader (SpecConfig)
\* ------------------------------------------------------------------------

\* what a key that is not set holds
Undefined == [t |-> "undefined", v |-> <<>>]

KeysOf(v) ==
  IF v.t = "object" THEN {v.v[k].key : k \in 1..Len(v.v)} ELSE {}

Lookup(v, key) ==
  IF v.t = "object" /\ HasKey(v.v, key) THEN ValueAt(v.v, key) ELSE Undefined

\* the values the layers set, earliest layer first
SetValues(values) == SelectSeq(values, LAMBDA x : x.t # "undefined")

\* the plain objects at the end of values: the layers that are merged key by
\* key, everything before them being replaced
RECURSIVE FinalObjects(_)
FinalObjects(values) ==
  IF values = <<>> \/ values[Len(values)].t # "object" THEN <<>>
  ELSE Append(FinalObjects(SubSeq(values, 1, Len(values) - 1)),
              values[Len(values)])

\* value is what the layers give for a key whose values in the layers are
\* values, earliest first: the last layer that sets the key wins; when its
\* value is a plain object, it is merged key by key with the plain objects
\* of the layers just before it; anything else replaces what came before
RECURSIVE Agrees(_, _)
Agrees(value, values) ==
  LET layers  == SetValues(values)
      objects == FinalObjects(layers)
  IN  IF layers = <<>> THEN value.t = "undefined"
      ELSE IF layers[Len(layers)].t # "object"
        THEN /\ value.t = layers[Len(layers)].t
             /\ value.v = layers[Len(layers)].v
      ELSE /\ value.t = "object"
           /\ KeysOf(value) = UNION {KeysOf(objects[i]) : i \in 1..Len(objects)}
           /\ \A key \in KeysOf(value) :
                Agrees(Lookup(value, key),
                       [i \in 1..Len(objects) |-> Lookup(objects[i], key)])

\* what a file contributes: nothing when it is missing or does not parse
Contribution(file) ==
  IF file.exists /\ file.valid THEN file.value ELSE Obj(<<>>)

Loaded == configFiles # NoConfigFiles /\ pc = "loaded"

\* C23: the configuration loadConfig returns gives every key the value of
\* the last of defaults, user and project that sets it; plain objects set by
\* successive layers are merged key by key, recursively; an array of a later
\* layer replaces the earlier value whole; a missing or unparsable file
\* contributes nothing. Stated for files that hold JSON objects.
C23_LayersMergeInOrder ==
  ( /\ Loaded
    /\ Contribution(configFiles.defaults).t = "object"
    /\ Contribution(configFiles.user).t = "object"
    /\ Contribution(configFiles.project).t = "object" )
  => Agrees(config, <<Contribution(configFiles.defaults),
                      Contribution(configFiles.user),
                      Contribution(configFiles.project)>>)

\* three layers: cycle4 is merged from all three, disabledRules is the
\* user's array alone, audit.enabled is the project's
C23_Witness ==
  /\ Loaded
  /\ Lookup(config, "disabledRules").t = "array"
  /\ Lookup(config, "disabledRules").v = <<Str("no-eval")>>
  /\ Lookup(config, "cycle4").t = "object"
  /\ Lookup(Lookup(config, "cycle4"), "enabled") = Bool(TRUE)
  /\ Lookup(Lookup(config, "cycle4"), "proximity") = Str("300")
  /\ KeysOf(Lookup(Lookup(config, "cycle4"), "extra")) = {"b"}
  /\ Lookup(Lookup(config, "audit"), "enabled") = Bool(FALSE)


\* ------------------------------------------------------------------------
\* Properties of the stop gate (SpecHooks)
\* ------------------------------------------------------------------------

\* the files of the tree under node, each with the names on the way to it
RECURSIVE FilesUnder(_, _)
FilesUnder(node, segments) ==
  IF node.kind = "file"
    THEN {[segments |-> segments, content |-> node.content,
           readable |-> node.readable]}
    ELSE UNION {FilesUnder(node.entries[k],
                           Append(segments, node.entries[k].name)) :
                  k \in 1..Len(node.entries)}

PathOf(f) == ProjectRoot \o "/" \o Join(f.segments, 1, "/")

\* the number of directories between the k-th segment and the file
DirsBelow(f, k) == Len(f.segments) - 1 - k

\* f is a research '.md' file under docs/research, research or docs, not
\* below node_modules or a dot-entry, within the depth limit
InScanScope(f) ==
  /\ EndsWith(f.segments[Len(f.segments)], ".md")
  /\ \A i \in 2..Len(f.segments) :
       f.segments[i] # "node_modules" /\ ~StartsWith(f.segments[i], ".")
  /\ \/ /\ f.segments[1] \in {"research", "docs"}
        /\ DirsBelow(f, 1) < MaxScanDepth
     \/ /\ Len(f.segments) > 2
        /\ f.segments[1] = "docs"
        /\ f.segments[2] = "research"
        /\ DirsBelow(f, 2) < MaxScanDepth
  /\ isResearchFile(PathOf(f))

\* some readable research file in scope has a non-empty runCycle4 result
SomeResearchFileFails ==
  \E f \in FilesUnder(project, <<>>) :
    /\ InScanScope(f)
    /\ f.readable
    /\ runCycle4(f.content, PathOf(f), config) # <<>>

StopDone == hook = "stop" /\ pc = "done"

\* C24: the stop gate writes block exactly when cycle4.enabled is not false
\* and a readable research file in scope has a non-empty runCycle4 result,
\* and approve otherwise; with cycle4.enabled false it reads no file; a file
\* that cannot be read is never read into a verdict.
C24_StopGateBlocksIffResearchFails ==
  StopDone =>
    /\ Len(stdout) = 1
    /\ stdout[1].decision \in {"block", "approve"}
    /\ (stdout[1].decision = "block")
         <=> (Cycle4Enabled(config) /\ SomeResearchFileFails)
    /\ ~Cycle4Enabled(config) => (reads = <<>> /\ calls = <<>>)
    /\ \A f \in FilesUnder(project, <<>>) :
         ~f.readable => ~ArrIncludes(reads, PathOf(f))

\* a project whose only vague research file cannot be read: approved
C24_Witness ==
  /\ StopDone
  /\ Cycle4Enabled(config)
  /\ stdout = <<ApproveOutput>>
  /\ reads # <<>>
  /\ \E f \in FilesUnder(project, <<>>) :
       /\ InScanScope(f)
       /\ ~f.readable
       /\ runCycle4(f.content, PathOf(f), config) # <<>>

\* C29: a run of the pre-tool gate writes at most one decision to stdout,
\* and in a run that read an operation descriptor the decision is the last
\* thing written: the append of the audit record (or, when the append fails,
\* its error line) comes before it, and nothing comes after.
C29_AuditBeforeSingleDecision ==
  hook = "pre-tool" =>
    /\ Len(stdout) <= 1
    /\ Len(SelectSeq(effects, LAMBDA e : e = "stdout")) = Len(stdout)
    /\ (ReadsOperation /\ stdout # <<>>) =>
         /\ effects = logEntryEffects \o <<"stdout">>
         /\ auditWritable => Len(auditLog) = 1

\* an operation with content that was verified, logged and then approved
C29_Witness ==
  /\ ReadsOperation
  /\ pc = "done"
  /\ auditWritable
  /\ extracted.content # ""
  /\ effects = <<"audit", "stdout">>
  /\ stdout = <<ApproveOutput>>
  /\ Len(auditLog) = 1

\* no element occurs twice in xs
NoDuplicates(xs) ==
  \A i \in 1..Len(xs) : \A j \in 1..Len(xs) : xs[i] = xs[j] => i = j

\* C30: in a run of the stop gate no file is read and verified twice, and
\* no file has two entries in the block summary.
C30_EachResearchFileVerifiedOnce ==
  hook = "stop" =>
    /\ NoDuplicates(reads)
    /\ NoDuplicates([k \in 1..Len(allViolations) |->
                      allViolations[k].filePath])


\* ------------------------------------------------------------------------
\* A session of Edit operations on one research file: each operation runs
\* the pre-tool gate as a process of its own, the tool changes the file when
\* the gate approved, and the stop gate runs when the session ends
\* ------------------------------------------------------------------------

\* the operations of a session
MaxEdits == 2

EditedFile == "research/findings.md"

EditedPath == ProjectRoot \o "/" \o EditedFile

\* texts of the file for which runCycle4 returns no violations
ValidTexts == {
  "Plain notes.",
  "<!-- PERPLEXITY_VERIFIED -->\nRevenue grew 45% [Source: https://x.com]."
}

\* pairs of old_string and new_string
EditPairs == {
  [old |-> "<!-- PERPLEXITY_VERIFIED -->\n", new |-> ""],
  [old |-> " [Source: https://x.com]", new |-> " as reported"],
  [old |-> "Plain notes", new |-> "Studies"],
  [old |-> ".", new |-> " show growth."],
  [old |-> "Plain", new |-> "Short"],
  [old |-> "notes", new |-> "Revenue grew 45%"],
  [old |-> "Plain", new |-> "Studies show growth:"],
  [old |-> "absent", new |-> "x"]
}

EditStdin ==
  {[raw |-> "json", tool_name |-> "Edit",
    tool_input |-> <<Entry("file_path", EditedPath),
                     Entry("old_string", e.old),
                     Entry("new_string", e.new)>>] : e \in EditPairs}

EditProject(text) ==
  Dir("", <<Dir("research", <<File("findings.md", text, TRUE)>>)>>)

\* the text of the edited file
EditedText == project.entries[1].entries[1].content

\* the text after the tool replaced the first occurrence of old by new; the
\* tool fails, and leaves the text alone, when old does not occur
Replaced(text, old, new) ==
  LET at == IndexOf(text, old, 1)
  IN  IF at = 0 THEN text
      ELSE SubSeq(text, 1, at - 1) \o new
           \o SubSeq(text, at + Len(old), Len(text))

InitEdit ==
  /\ hook = "pre-tool"
  /\ pc = "start"
  /\ stdin \in EditStdin
  /\ config \in {c \in GateConfigs :
                   c.disabledRules = <<>> /\ c.audit.enabled = "undefined"}
  /\ project \in {EditProject(t) : t \in ValidTexts}
  /\ auditWritable = TRUE
  /\ extracted = NoExtract
  /\ allViolations = <<>>
  /\ calls = <<>>
  /\ stdout = <<>>
  /\ stderr = <<>>
  /\ auditLog = <<>>
  /\ effects = <<>>
  /\ configFiles = NoConfigFiles
  /\ reads = <<>>
  /\ exitCodes = <<>>
  /\ call = NoCall
  /\ pending = <<>>
  /\ returned = FALSE
  /\ result = <<>>
  /\ thrown = ""
  /\ lastIndex = ZeroIndex

\* the gate approved: the tool edits the file
EditApplied ==
  /\ hook = "pre-tool"
  /\ pc = "done"
  /\ stdout = <<ApproveOutput>>
  /\ project' = EditProject(Replaced(EditedText,
                                     Field(stdin.tool_input, "old_string"),
                                     Field(stdin.tool_input, "new_string")))
  /\ pc' = "edited"
  /\ UNCHANGED <<hook, stdin, config, auditWritable, configFiles>>
  /\ UNCHANGED <<extracted, allViolations, calls, stdout, stderr, auditLog,
                 effects, reads, exitCodes>>
  /\ UNCHANGED engineVars

\* the gate blocked: the tool call is prevented and the file stays as it is
EditPrevented ==
  /\ hook = "pre-tool"
  /\ pc = "done"
  /\ stdout # <<ApproveOutput>>
  /\ pc' = "edited"
  /\ UNCHANGED inputVars
  /\ UNCHANGED <<extracted, allViolations, calls, stdout, stderr, auditLog,
                 effects, reads, exitCodes>>
  /\ UNCHANGED engineVars

\* the next operation of the session starts a new process of the gate; the
\* audit log stays on disk
EditAgain ==
  /\ hook = "pre-tool"
  /\ pc = "edited"
  /\ Len(auditLog) < MaxEdits
  /\ stdin' \in EditStdin
  /\ pc' = "start"
  /\ extracted' = NoExtract
  /\ allViolations' = <<>>
  /\ calls' = <<>>
  /\ stdout' = <<>>
  /\ stderr' = <<>>
  /\ effects' = <<>>
  /\ exitCodes' = <<>>
  /\ UNCHANGED <<hook, config, project, auditWritable, configFiles>>
  /\ UNCHANGED <<auditLog, reads>>
  /\ UNCHANGED engineVars

\* the session ends: the stop hook starts
SessionEnds ==
  /\ hook = "pre-tool"
  /\ pc = "edited"
  /\ hook' = "stop"
  /\ stdin' = [raw |-> "empty", tool_name |-> "", tool_input |-> <<>>]
  /\ pc' = "start"
  /\ extracted' = NoExtract
  /\ allViolations' = <<>>
  /\ calls' = <<>>
  /\ stdout' = <<>>
  /\ stderr' = <<>>
  /\ effects' = <<>>
  /\ exitCodes' = <<>>
  /\ UNCHANGED <<config, project, auditWritable, configFiles>>
  /\ UNCHANGED <<auditLog, reads>>
  /\ UNCHANGED engineVars

NextEditSession ==
  \/ ReadInput
  \/ NoContent
  \/ RouteResearch
  \/ RouteRules
  \/ Block
  \/ Approve
  \/ EditApplied
  \/ EditPrevented
  \/ EditAgain
  \/ SessionEnds
  \/ StopDisabled
  \/ StopScan
  \/ StopBlock
  \/ StopApprove

SpecEdit == InitEdit /\ [][NextEditSession]_vars

\* every operation of the session so far was approved
AllEditsApproved ==
  \A k \in 1..Len(auditLog) : auditLog[k].decision = "approve"

\* C28: in a session on a file that was valid at the start, as long as the
\* gate approved every Edit, runCycle4 finds nothing in the file as the
\* edits left it, and the stop gate does not block.
C28_ApprovedEditsPreserveValidity ==
  (AllEditsApproved /\ Cycle4Enabled(config)) =>
    /\ (pc = "edited" \/ hook = "stop") =>
         runCycle4(EditedText, EditedPath, config) = <<>>
    /\ (hook = "stop" /\ pc = "done") => stdout = <<ApproveOutput>>

====
